---- MODULE Spec2Model ----
(***************************************************************************)
(* Sandboxed process execution of SecureOS: the process sandbox            *)
(* (secure_sandbox_fixed.c), the application sandbox (app_sandbox.c), the  *)
(* phase3 sandbox (secure_sandbox.c), the service manager's child          *)
(* (service_manager.c), the capability controller                          *)
(* (capability_syscalls.c), the container runtime (container_security.c),  *)
(* the security monitor (security_monitor.c), input security               *)
(* (input_security.c) and the compositor (secure_compositor.c).            *)
(*                                                                         *)
(* A spawn call runs in the parent; the forked child then runs the builder *)
(* pipeline one stage per step.  Every system call the code makes is       *)
(* appended to the child's trace with its result, and its outcome is the   *)
(* operating system's choice within what the process state permits.        *)
(***************************************************************************)
EXTENDS Integers, Sequences, FiniteSets, TLC

(* ---------------------------------------------------------------- bounds *)
MaxPid == 2
MaxMounts == 2
MaxFiles == 1
MaxCalls == 2
MaxRss == 3
\* The capacities of the security monitor's two static arrays (10000 events
\* and 1000 rules in security_monitor.h), scaled down.
MAX_EVENTS == 2
MAX_RULES == 3
\* The milliseconds of monotonic time followed by the input security runs.
MaxMs == 3

(* ------------------------------------------------------------- constants *)
EPERM == 1
ENOENT == 2
ESRCH == 3
ENOMEM == 12
EMFILE == 24
EINVAL == 22
EAGAIN == 11
EXIT_FAILURE == 1
SIGKILL == 9
SIGTERM == 15
CAP_SETGID == 6
CAP_SETUID == 7
ROOT == 0
USER == 1000
MAX_ALLOWED_FILES == 128
MAX_ALLOWED_SYSCALLS == 64
MAX_MOUNTS == 64
KB == 1024
EVENT_PROCESS_START == 1
EVENT_PRIVILEGE_ESCALATION == 5
EVENT_POLICY_VIOLATION == 6
EVENT_ANOMALY_DETECTED == 7
EBUSY == 16
EACCES == 13
SURFACE_OP_COMMIT == 1
SECURITY_LEVEL_PUBLIC == 0
FirstUserUid == 1000
MAX_INPUT_RATE_PER_SEC == 1000
NSEC_PER_SEC == 1000000000
EV_KEY == 1
EV_REL == 2
EV_ABS == 3
EV_MSC == 4
KEY_A == 30
KEY_SCROLLLOCK == 70
KEY_SYSRQ == 99
KEY_PAUSE == 119
BTN_MOUSE == 272
BTN_JOYSTICK == 288
ABS_X == 0
ABS_PRESSURE == 24

(* Representative capability bits: both sides of the 32-bit word boundary *)
(* of the two-word capability structure, and the two identity-changing    *)
(* capabilities.                                                           *)
CapBits == {CAP_SETGID, CAP_SETUID, 31, 32}
WordBits == 0..31

Pids == 1..MaxPid
FailErrnos == {EPERM, EINVAL}
Uids == {ROOT, USER}

VARIABLES
    variant,     \* which implementation was called: "none" before the call
    config,      \* the policy passed to the spawn call
    callerUid,   \* getuid() of the calling process
    enforce,     \* TRUE when the kernel enforces an installed seccomp mode
    ppc,         \* parent position: "idle", "returned"
    pret,        \* return value of the spawn call
    nforks,      \* number of child processes created by fork()
    cpid,        \* pid of the child (0: no child)
    cpc,         \* child position: the stage it is about to run, or terminal
    proc,        \* operating-system state of the child process, with its trace
    stages,      \* builder stages the child completed, in order
    audit,       \* audit records emitted by the child and the parent
    exitStatus,  \* status passed to _exit (-1: none)
    exitFrom,    \* the stage whose failure branch called _exit
    services,    \* the service manager's table of loaded services
    ptable,      \* kernel process table: what runs under each pid
    ctx,         \* the app_sandbox_context the caller keeps per instance
    signals,     \* every kill() the parent made, in order
    target,      \* the instance a terminate call in its grace period is about
    rets,        \* per instance, the values its terminate calls returned
    vmrss,       \* per pid, the VmRSS line of /proc/<pid>/status, in kB
    mon,         \* the monitor call the caller made last, with its outcome
    events,      \* security monitor: events[0 .. event_count-1]
    rules,       \* security monitor: rules[0 .. rule_count-1]
    monitor_initialized,
    seccall,     \* the security monitor call made last: value and syslog lines
    inctx,       \* input security: the struct input_security_context
    clock,       \* CLOCK_MONOTONIC, in nanoseconds
    incall,      \* the input security call made last, with what it was given
    surface,     \* compositor: the struct secure_surface of one surface
    wccall       \* the compositor call made last, with what it was given

\* What the monitor reads and returns.
monVars == <<vmrss, mon>>

\* The security monitor (security_monitor.c).
secVars == <<events, rules, monitor_initialized, seccall>>

\* Input security (input_security.c).
inputVars == <<inctx, clock, incall>>

\* The state of the components other than the sandboxes.
\* The compositor (secure_compositor.c).
compositorVars == <<surface, wccall>>

\* The state of the components other than the sandboxes.
otherVars == <<secVars, inputVars, compositorVars>>

\* The state of the instances' life after spawn.
lifeVars == <<ptable, ctx, signals, target, rets, monVars, otherVars>>

vars == <<variant, config, callerUid, enforce, ppc, pret, nforks, cpid, cpc,
          proc, stages, audit, exitStatus, exitFrom, services, lifeVars>>

\* The state of the sandboxes and their instances.
sandboxVars == <<variant, config, callerUid, enforce, ppc, pret, nforks, cpid, cpc,
                 proc, stages, audit, exitStatus, exitFrom, services,
                 ptable, ctx, signals, target, rets, monVars>>

\* What a call of the security monitor leaves alone.
nonSecVars == <<sandboxVars, inputVars, compositorVars>>

\* What a call of input security leaves alone.
nonInputVars == <<sandboxVars, secVars, compositorVars>>

\* What a call of the compositor leaves alone.
nonCompositorVars == <<sandboxVars, secVars, inputVars>>

(* ------------------------------------------------- operating system model *)
NoFlags == {}

Call(c, a, f, r) == [call |-> c, arg |-> a, flags |-> f, res |-> r]

\* System calls the kernel lets through once a seccomp mode is installed.
StrictAllowed == {"read", "write", "exit", "sigreturn"}
FilterAllowed == {"read", "write", "exit", "exit_group", "brk", "mmap", "munmap"}

Filtered(p, c) ==
    /\ enforce
    /\ \/ p.seccomp = "strict" /\ c \notin StrictAllowed
       \/ p.seccomp = "filter" /\ c \notin FilterAllowed

\* Result recorded for a call at which the kernel killed the process.
KILLED == -SIGKILL

\* Outcome of running a piece of code: the process afterwards, the value
\* returned, and the audit records emitted on the way.
Out(p, r) == [p |-> p, ret |-> r, log |-> <<>>]

\* One system call: killed by the filter, or success (the process becomes
\* okp) when canOk, or failure (-1, errno set) when canFail.
Sys(p, c, a, f, canOk, okp, canFail) ==
    IF Filtered(p, c)
    THEN {Out([p EXCEPT !.life = "killed",
                        !.trace = Append(@, Call(c, a, f, KILLED))], KILLED)}
    ELSE {Out([okp EXCEPT !.trace = Append(p.trace, Call(c, a, f, 0))], 0)
            : x \in IF canOk THEN {0} ELSE {}}
         \cup
         {Out([p EXCEPT !.errno = e,
                        !.trace = Append(@, Call(c, a, f, -1))], -1)
            : e \in IF canFail THEN FailErrnos ELSE {}}

\* `if (call(...) < 0) return -errno;`
ReturnErrno(S) ==
    {IF o.p.life = "run" /\ o.ret < 0 THEN [o EXCEPT !.ret = -o.p.errno] ELSE o
        : o \in S}

\* Sequencing: the code after a call runs only when the process still lives
\* and the call did not make the function return (ret < 0).
AndThen(S, F(_)) ==
    UNION {IF o.p.life = "run" /\ o.ret >= 0
           THEN {[n EXCEPT !.log = o.log \o @] : n \in F(o.p)}
           ELSE {o} : o \in S}

\* An audit record: the emitting function, the stage or event it names, the
\* code passed, and whether the text says success.
Audit(fn, what, code, ok) == [fn |-> fn, what |-> what, code |-> code, ok |-> ok]

Emit(o, rec) == [o EXCEPT !.log = Append(@, rec)]

NewProcess(uid) ==
    [uid |-> uid, gid |-> uid,
     capEff |-> IF uid = ROOT THEN CapBits ELSE {},
     capPrm |-> IF uid = ROOT THEN CapBits ELSE {},
     capInh |-> {},
     bset |-> CapBits,
     nnp |-> FALSE, seccomp |-> "off", errno |-> 0, life |-> "run",
     rlim |-> <<>>, trace |-> <<>>]

NoProcess == [NewProcess(USER) EXCEPT !.life = "none"]

unshare(p, flags) ==
    Sys(p, "unshare", 0, flags, TRUE,
        IF "NEWUSER" \in flags
        THEN [p EXCEPT !.capEff = CapBits, !.capPrm = CapBits] ELSE p,
        TRUE)

mount(p, idx, flags) == Sys(p, "mount", idx, flags, TRUE, p, TRUE)

\* mount() with an empty source and target: it fails.
mount_nowhere(p, idx, flags) == Sys(p, "mount", idx, flags, FALSE, p, TRUE)

prctl_no_new_privs(p) ==
    Sys(p, "prctl_no_new_privs", 1, NoFlags, TRUE, [p EXCEPT !.nnp = TRUE], TRUE)

\* Strict mode needs no privilege; filter mode needs no_new_privs.
prctl_seccomp(p, mode) ==
    Sys(p, "prctl_seccomp", 0, {mode}, mode = "strict" \/ p.nnp,
        [p EXCEPT !.seccomp = mode], TRUE)

\* `rlim.rlim_cur = rlim.rlim_max = v;`
rlimit(v) == [rlim_cur |-> v, rlim_max |-> v]

\* setrlimit(res, &rlim): on success the process holds the soft and hard
\* limit of the structure for that resource.
setrlimit(p, res, rlim) ==
    Sys(p, "setrlimit", rlim.rlim_cur, {res}, TRUE,
        [p EXCEPT !.rlim = Append(@, [res |-> res, cur |-> rlim.rlim_cur,
                                      max |-> rlim.rlim_max])], TRUE)

\* setgid/setuid: with the capability any id; without it only the current id.
setgid(p, g) ==
    Sys(p, "setgid", g, NoFlags, CAP_SETGID \in p.capEff \/ g = p.gid,
        [p EXCEPT !.gid = g], TRUE)

SetuidEffect(p, u) ==
    IF p.uid = ROOT /\ u # ROOT
    THEN [p EXCEPT !.uid = u, !.capEff = {}, !.capPrm = {}]
    ELSE [p EXCEPT !.uid = u]

setuid(p, u) ==
    Sys(p, "setuid", u, NoFlags, CAP_SETUID \in p.capEff \/ u = p.uid,
        SetuidEffect(p, u), TRUE)

\* Whether the process can make itself uid 0.
CanRegainRoot(p) == CAP_SETUID \in p.capEff \/ p.uid = ROOT

\* The post-drop attempt to regain uid 0, setuid(0): it succeeds exactly
\* when the process is still able to become root.
setuid0(p) ==
    Sys(p, "setuid0", ROOT, NoFlags, CanRegainRoot(p), SetuidEffect(p, ROOT),
        ~CanRegainRoot(p))

execve(p, exists) == Sys(p, "execve", 0, NoFlags, exists, p, TRUE)

chroot(p) == Sys(p, "chroot", 0, NoFlags, TRUE, p, TRUE)

chdir(p) == Sys(p, "chdir", 0, NoFlags, TRUE, p, TRUE)

\* PR_CAPBSET_DROP needs CAP_SETPCAP, which a process holds exactly when it
\* holds the full capability set.
prctl_capbset_drop(p, cap) ==
    Sys(p, "prctl_capbset_drop", cap, NoFlags, p.capEff = CapBits,
        [p EXCEPT !.bset = @ \ {cap}], p.capEff # CapBits)

getpid(p) == Sys(p, "getpid", 0, NoFlags, TRUE, p, FALSE)

\* _exit() ends the process through exit_group.
exit_group(p, status) ==
    Sys(p, "exit_group", status, NoFlags, TRUE, [p EXCEPT !.life = "exited"], FALSE)

\* What the kernel has under a pid: nothing, or a process of an owner, which
\* runs or has exited and waits to be reaped.
Free == [owner |-> "none", st |-> "free"]
Running(owner) == [owner |-> owner, st |-> "running"]
Zombie(owner) == [owner |-> owner, st |-> "zombie"]

(* ------------------------------------------------------------------------ *)
(* capability_syscalls.c                                                    *)
(* ------------------------------------------------------------------------ *)
\* An unsigned long capability mask is the set of its bits.
And32(mask) == {b \in mask : b \in WordBits}          \* mask & 0xFFFFFFFF
Shr32(mask) == {b - 32 : b \in {c \in mask : c >= 32}}  \* mask >> 32
Above32(mask) == \E b \in mask : b >= 32               \* mask > 0xFFFFFFFF

CapData(e, p, i) == [effective |-> e, permitted |-> p, inheritable |-> i]

\* The 64-bit set a two-word field stands for.
Join(lo, hi) == lo \cup {b + 32 : b \in hi}

secureos_cap_get_proc(p) == Sys(p, "capget", 0, NoFlags, TRUE, p, TRUE)

\* capset: the new permitted set must lie within the old one, the effective
\* set within the new permitted set.
secureos_cap_set_proc(p, caps) ==
    LET eff == Join(caps[0].effective, caps[1].effective)
        prm == Join(caps[0].permitted, caps[1].permitted)
        inh == Join(caps[0].inheritable, caps[1].inheritable)
    IN  Sys(p, "capset", 0, NoFlags,
            prm \subseteq p.capPrm /\ eff \subseteq prm
                /\ inh \subseteq (p.capInh \cup p.capPrm),
            [p EXCEPT !.capEff = eff, !.capPrm = prm, !.capInh = inh],
            TRUE)

\* Mutant: only the low word of the mask is written.
Mut_secureos_cap_drop_all_except_low(p, required_caps) ==
    AndThen(ReturnErrno(secureos_cap_get_proc(p)), LAMBDA q :
        LET zero == [i \in 0..1 |-> CapData({}, {}, {})]
            caps == IF required_caps # {}
                    THEN [zero EXCEPT ![0] = CapData(And32(required_caps),
                                                     And32(required_caps), {})]
                    ELSE zero
        IN  secureos_cap_set_proc(q, caps))

secureos_cap_drop_all_except(p, required_caps) ==
    AndThen(ReturnErrno(secureos_cap_get_proc(p)), LAMBDA q :
        LET zero == [i \in 0..1 |-> CapData({}, {}, {})]
            low  == IF required_caps # {}
                    THEN [zero EXCEPT ![0] = CapData(And32(required_caps),
                                                     And32(required_caps), {})]
                    ELSE zero
            caps == IF required_caps # {} /\ Above32(required_caps)
                    THEN [low EXCEPT ![1] = CapData(Shr32(required_caps),
                                                    Shr32(required_caps), {})]
                    ELSE low
        IN  secureos_cap_set_proc(q, caps))

audit_capability_operation(operation, result) ==
    Audit("audit_capability_operation", operation, result, result = 0)

(* ------------------------------------------------------------------------ *)
(* secure_sandbox_fixed.c: the process sandbox                              *)
(* ------------------------------------------------------------------------ *)
StageOrder == <<"namespaces", "mounts", "seccomp", "capabilities", "limits", "user">>

Limits(m, c, f, n, o) ==
    [max_memory |-> m, max_cpu_time |-> c, max_file_size |-> f,
     max_processes |-> n, max_open_files |-> o]

LimitChoices == {Limits(0, 0, 0, 0, 0), Limits(64, 0, 8, 0, 4), Limits(64, 5, 8, 2, 4)}

CapChoices == SUBSET CapBits

\* Mount lists of the policy: each mount with its flags and its read-only
\* flag; in the lists considered, neighbouring mounts differ in the
\* read-only flag.
MountLists ==
    {[i \in 1..n |-> [flags |-> {"MS_BIND"}, readonly |-> (i % 2 = b)]]
        : n \in 0..MaxMounts, b \in 0..1}

NullConfig == [null |-> TRUE]

\* mounts holds the entries of the MAX_MOUNTS-slot array that the policy
\* filled; the slots after them are empty.  mount_count is the number of
\* filled entries, or (with none filled) a count beyond the array.
SandboxConfigs ==
    {c \in [null : {FALSE}, program : {"", "/bin/true"}, uid : Uids, gid : Uids,
            required_caps : CapChoices, limits : LimitChoices, mounts : MountLists,
            mount_count : (0..MaxMounts) \cup {MAX_MOUNTS + 1}] :
        \/ c.mount_count = Len(c.mounts)
        \/ c.mount_count > MAX_MOUNTS /\ c.mounts = <<>>}

\* config->mounts[i]: a filled entry, or an empty slot (no paths, no flags).
MountAt(cfg, i) ==
    IF i < Len(cfg.mounts) THEN cfg.mounts[i + 1]
    ELSE [flags |-> NoFlags, readonly |-> FALSE]

validate_sandbox_config(cfg, caller) ==
    IF cfg.null \/ cfg.program = "" THEN -EINVAL
    ELSE IF cfg.uid = 0 /\ caller # 0 THEN -EPERM
    ELSE 0

audit_log_sandbox_failure(operation, error_code) ==
    Audit("audit_log_sandbox_failure", operation, error_code, FALSE)

audit_log_sandbox_success(pid) ==
    Audit("audit_log_sandbox_success", "created", pid, TRUE)

RECURSIVE SandboxMountLoop(_, _, _)
SandboxMountLoop(p, cfg, i) ==
    IF i >= cfg.mount_count THEN {Out(p, 0)}
    ELSE LET flags == MountAt(cfg, i).flags
                          \cup (IF MountAt(cfg, i).readonly THEN {"MS_RDONLY"}
                                                            ELSE NoFlags)
             call == IF i < Len(cfg.mounts) THEN mount(p, i, flags)
                                            ELSE mount_nowhere(p, i, flags)
         IN  AndThen(ReturnErrno(call),
                     LAMBDA q : SandboxMountLoop(q, cfg, i + 1))

\* Mutant: the tmpfs is mounted before / is made private.
Mut_setup_sandbox_mounts_tmpfs_first(p, cfg) ==
    AndThen(ReturnErrno(mount(p, -1, {"MS_NODEV", "MS_NOSUID", "MS_NOEXEC"})), LAMBDA q :
    AndThen(ReturnErrno(mount(q, -2, {"MS_REC", "MS_PRIVATE"})), LAMBDA r :
    SandboxMountLoop(r, cfg, 0)))

\* mount index -2 is the remount of /, -1 the tmpfs on /tmp.
setup_sandbox_mounts(p, cfg) ==
    AndThen(ReturnErrno(mount(p, -2, {"MS_REC", "MS_PRIVATE"})), LAMBDA q :
    AndThen(ReturnErrno(mount(q, -1, {"MS_NODEV", "MS_NOSUID", "MS_NOEXEC"})), LAMBDA r :
    SandboxMountLoop(r, cfg, 0)))

\* Mutant: a failed PR_SET_SECCOMP is not reported.
Mut_apply_seccomp_filter_ignores(p) ==
    AndThen(ReturnErrno(prctl_no_new_privs(p)), LAMBDA q :
    {IF o.p.life = "run" THEN [o EXCEPT !.ret = 0] ELSE o
        : o \in prctl_seccomp(q, "strict")})

apply_seccomp_filter(p) ==
    AndThen(ReturnErrno(prctl_no_new_privs(p)), LAMBDA q :
    ReturnErrno(prctl_seccomp(q, "strict")))

\* Mutant: the result of the drop is logged but success is returned.
Mut_drop_all_capabilities_except_swallows(p, required_caps) ==
    {IF o.p.life = "run"
     THEN [Emit(o, audit_capability_operation("drop_capabilities", o.ret)) EXCEPT !.ret = 0]
     ELSE o
        : o \in secureos_cap_drop_all_except(p, required_caps)}

drop_all_capabilities_except(p, required_caps) ==
    {Emit(o, audit_capability_operation("drop_capabilities", o.ret))
        : o \in secureos_cap_drop_all_except(p, required_caps)}

\* `if (limit > 0) { if (setrlimit(res, limit) < 0) return -errno; }`
\* Mutant: a limit whose field is 0 is applied as well.
Mut_LimitStep_zero(S, val, res) ==
    AndThen(S, LAMBDA q : ReturnErrno(setrlimit(q, res, rlimit(val))))

LimitStep(S, val, res) ==
    AndThen(S, LAMBDA q : IF val > 0 THEN ReturnErrno(setrlimit(q, res, rlimit(val)))
                                     ELSE {Out(q, 0)})

apply_resource_limits(p, limits) ==
    LimitStep(LimitStep(LimitStep(LimitStep(LimitStep({Out(p, 0)},
        limits.max_memory, "RLIMIT_AS"),
        limits.max_cpu_time, "RLIMIT_CPU"),
        limits.max_file_size, "RLIMIT_FSIZE"),
        limits.max_processes, "RLIMIT_NPROC"),
        limits.max_open_files, "RLIMIT_NOFILE")

\* Mutant: no attempt to regain uid 0 after the change.
Mut_change_to_sandbox_user_unverified(p, uid, gid) ==
    AndThen(ReturnErrno(setgid(p, gid)), LAMBDA q : ReturnErrno(setuid(q, uid)))

\* Mutant: the attempt to regain uid 0 is made and its result ignored.
Mut_change_to_sandbox_user_ignores(p, uid, gid) ==
    AndThen(ReturnErrno(setgid(p, gid)), LAMBDA q :
    AndThen(ReturnErrno(setuid(q, uid)), LAMBDA r :
    {IF o.p.life = "run" THEN [o EXCEPT !.ret = 0] ELSE o : o \in setuid0(r)}))

change_to_sandbox_user(p, uid, gid) ==
    AndThen(ReturnErrno(setgid(p, gid)), LAMBDA q :
    AndThen(ReturnErrno(setuid(q, uid)), LAMBDA r :
    {IF o.p.life = "run"
     THEN (IF o.ret = 0 THEN [o EXCEPT !.ret = -EPERM] ELSE [o EXCEPT !.ret = 0])
     ELSE o : o \in setuid0(r)}))

(* ----------------------------------------------------- the child's steps *)
\* The status the failure branch of a stage passes to _exit: the same
\* EXIT_FAILURE in every branch.
stage_exit_code(stage) == EXIT_FAILURE

\* The child calls _exit(EXIT_FAILURE) from the failure branch of `from`.
ChildExit(p, log, from) ==
    \E x \in exit_group(p, stage_exit_code(from)) :
        /\ proc' = x.p
        /\ audit' = audit \o log
        /\ cpc' = IF x.p.life = "killed" THEN "killed" ELSE "exited"
        /\ exitStatus' = IF x.p.life = "killed" THEN exitStatus ELSE stage_exit_code(from)
        /\ exitFrom' = IF x.p.life = "killed" THEN exitFrom ELSE from
        /\ UNCHANGED stages

ChildKilled(p, log) ==
    /\ proc' = p
    /\ audit' = audit \o log
    /\ cpc' = "killed"
    /\ UNCHANGED <<stages, exitStatus, exitFrom>>

ChildAdvance(p, log, stage, next) ==
    /\ proc' = p
    /\ audit' = audit \o log
    /\ cpc' = next
    /\ stages' = Append(stages, stage)
    /\ UNCHANGED <<exitStatus, exitFrom>>

\* Mutant: the failure branch exits without an audit record.
Mut_ChildStage_silent(o, stage, failure, next) ==
    /\ IF o.p.life = "killed" THEN ChildKilled(o.p, o.log)
       ELSE IF o.ret < 0 THEN ChildExit(o.p, o.log, stage)
       ELSE ChildAdvance(o.p, o.log, stage, next)
    /\ UNCHANGED <<variant, config, callerUid, enforce, ppc, pret, nforks, cpid, services>>

\* A builder stage of the child: o is the outcome of the stage's code and
\* failure the audit record its failure branch emits before _exit.
ChildStage(o, stage, failure, next) ==
    /\ IF o.p.life = "killed" THEN ChildKilled(o.p, o.log)
       ELSE IF o.ret < 0 THEN ChildExit(o.p, Append(o.log, failure), stage)
       ELSE ChildAdvance(o.p, o.log, stage, next)
    /\ UNCHANGED <<variant, config, callerUid, enforce, ppc, pret, nforks, cpid, services>>

SandboxNamespaces == {"NEWNS", "NEWPID", "NEWNET", "NEWUTS", "NEWIPC", "NEWUSER"}

sandbox_child_namespaces ==
    /\ variant = "sandbox" /\ cpc = "namespaces"
    /\ \E o \in unshare(proc, SandboxNamespaces) :
          ChildStage(o, "namespaces",
                     audit_log_sandbox_failure("namespace creation", o.p.errno), "mounts")
    /\ UNCHANGED lifeVars

\* Mutant: the child goes on to seccomp without running the mount stage.
Mut_sandbox_child_mounts_skipped ==
    /\ variant = "sandbox" /\ cpc = "mounts"
    /\ cpc' = "seccomp"
    /\ UNCHANGED <<variant, config, callerUid, enforce, ppc, pret, nforks, cpid,
                   proc, stages, audit, exitStatus, exitFrom, services>>
    /\ UNCHANGED lifeVars

sandbox_child_mounts ==
    /\ variant = "sandbox" /\ cpc = "mounts"
    /\ \E o \in setup_sandbox_mounts(proc, config) :
          ChildStage(o, "mounts", audit_log_sandbox_failure("mount setup", o.ret), "seccomp")
    /\ UNCHANGED lifeVars

sandbox_child_seccomp ==
    /\ variant = "sandbox" /\ cpc = "seccomp"
    /\ \E o \in apply_seccomp_filter(proc) :
          ChildStage(o, "seccomp", audit_log_sandbox_failure("seccomp setup", o.ret),
                     "capabilities")
    /\ UNCHANGED lifeVars

sandbox_child_capabilities ==
    /\ variant = "sandbox" /\ cpc = "capabilities"
    /\ \E o \in drop_all_capabilities_except(proc, config.required_caps) :
          ChildStage(o, "capabilities",
                     audit_log_sandbox_failure("capability drop", o.ret), "limits")
    /\ UNCHANGED lifeVars

sandbox_child_limits ==
    /\ variant = "sandbox" /\ cpc = "limits"
    /\ \E o \in apply_resource_limits(proc, config.limits) :
          ChildStage(o, "limits", audit_log_sandbox_failure("resource limits", o.ret), "user")
    /\ UNCHANGED lifeVars

sandbox_child_user ==
    /\ variant = "sandbox" /\ cpc = "user"
    /\ \E o \in change_to_sandbox_user(proc, config.uid, config.gid) :
          ChildStage(o, "user", audit_log_sandbox_failure("user change", o.ret), "exec")
    /\ UNCHANGED lifeVars

\* audit_log_sandbox_success(getpid()); execve(...); _exit(EXIT_FAILURE);
sandbox_child_exec ==
    /\ variant = "sandbox" /\ cpc = "exec"
    /\ \E g \in getpid(proc) :
         IF g.p.life = "killed" THEN ChildKilled(g.p, <<>>)
         ELSE \E o \in execve(g.p, config.program # "") :
                LET log == <<audit_log_sandbox_success(cpid)>> IN
                IF o.p.life = "killed" THEN ChildKilled(o.p, log)
                ELSE IF o.ret < 0 THEN ChildExit(o.p, log, "exec")
                ELSE /\ proc' = o.p
                     /\ audit' = audit \o log
                     /\ cpc' = "execed"
                     /\ UNCHANGED <<stages, exitStatus, exitFrom>>
    /\ UNCHANGED <<variant, config, callerUid, enforce, ppc, pret, nforks, cpid, services>>
    /\ UNCHANGED lifeVars

(* ----------------------------------------------------------- the parent *)
\* fork() succeeded with child pid: the child starts at its first stage with
\* the caller's identity.
Forked(pid, first) ==
    /\ ptable[pid] = Free
    /\ nforks' = nforks + 1
    /\ cpid' = pid
    /\ cpc' = first
    /\ proc' = NewProcess(callerUid)

NotForked == UNCHANGED <<nforks, cpid, cpc, proc>>

create_secure_sandbox ==
    /\ ppc = "idle" /\ variant = "none"
    /\ \E cfg \in SandboxConfigs \cup {NullConfig} :
        /\ variant' = "sandbox"
        /\ config' = cfg
        /\ ppc' = "returned"
        /\ IF cfg.null \/ validate_sandbox_config(cfg, callerUid) = 0
           THEN pret' = -EINVAL /\ NotForked
           ELSE \/ pret' = -EAGAIN /\ NotForked
                \/ \E pid \in Pids : pret' = pid /\ Forked(pid, "namespaces")
    /\ UNCHANGED <<callerUid, enforce, stages, audit, exitStatus, exitFrom, services>>
    /\ UNCHANGED lifeVars

(* ------------------------------------------------------------------------ *)
(* app_sandbox.c: the application sandbox                                   *)
(* ------------------------------------------------------------------------ *)
\* The policy together with the app_path argument of create_app_sandbox.
AppPolicies ==
    [null : {FALSE}, app_name : {"", "app"}, app_path : {"", "/bin/app"},
     sandbox_uid : Uids, sandbox_gid : {USER},
     allowed_capabilities : CapChoices,
     file_count : (0..MaxFiles) \cup {MAX_ALLOWED_FILES + 1},
     syscall_count : {0, MAX_ALLOWED_SYSCALLS + 1},
     memory_limit : {0, 2 * KB}, cpu_limit : {0, 5},
     network_access : BOOLEAN]

audit_log_app_sandbox_event(event, result) ==
    Audit("audit_log_app_sandbox_event", event, result, result = 0)

\* Mutant: a zero memory or cpu limit is accepted.
Mut_validate_app_policy_zero_limit(policy) ==
    IF policy.null \/ policy.app_name = "" THEN -EINVAL
    ELSE IF policy.sandbox_uid = 0 THEN -EPERM
    ELSE IF policy.file_count > MAX_ALLOWED_FILES THEN -EINVAL
    ELSE IF policy.syscall_count > MAX_ALLOWED_SYSCALLS THEN -EINVAL
    ELSE 0

validate_app_policy(policy) ==
    IF policy.null \/ policy.app_name = "" THEN -EINVAL
    ELSE IF policy.sandbox_uid = 0 THEN -EPERM
    ELSE IF policy.memory_limit = 0 \/ policy.cpu_limit = 0 THEN -EINVAL
    ELSE IF policy.file_count > MAX_ALLOWED_FILES THEN -EINVAL
    ELSE IF policy.syscall_count > MAX_ALLOWED_SYSCALLS THEN -EINVAL
    ELSE 0

\* A bind mount of an allowed file that fails is skipped (`continue`).
RECURSIVE AppFileLoop(_, _, _)
AppFileLoop(p, policy, i) ==
    IF i >= policy.file_count THEN {Out(p, 0)}
    ELSE UNION {IF o.p.life = "run" THEN AppFileLoop(o.p, policy, i + 1) ELSE {o}
                  : o \in mount(p, i, {"MS_BIND", "MS_RDONLY"})}

setup_app_filesystem(p, policy) ==
    AndThen(ReturnErrno(mount(p, -2, {"MS_REC", "MS_PRIVATE"})), LAMBDA q :
    AndThen(ReturnErrno(mount(q, -1, {"MS_NODEV", "MS_NOSUID", "MS_NOEXEC"})), LAMBDA r :
    AppFileLoop(r, policy, 0)))

\* Mutant: the seccomp mode is installed before no_new_privs is set.
Mut_apply_app_seccomp_swapped(p) ==
    AndThen(ReturnErrno(prctl_seccomp(p, "strict")), LAMBDA q :
    ReturnErrno(prctl_no_new_privs(q)))

apply_app_seccomp(p) ==
    AndThen(ReturnErrno(prctl_no_new_privs(p)), LAMBDA q :
    ReturnErrno(prctl_seccomp(q, "strict")))

apply_app_resource_limits(p, policy) ==
    AndThen(ReturnErrno(setrlimit(p, "RLIMIT_AS", rlimit(policy.memory_limit))), LAMBDA q :
    AndThen(ReturnErrno(setrlimit(q, "RLIMIT_CPU", rlimit(policy.cpu_limit))), LAMBDA r :
    AndThen(ReturnErrno(setrlimit(r, "RLIMIT_NOFILE", rlimit(64))), LAMBDA t :
    ReturnErrno(setrlimit(t, "RLIMIT_NPROC", rlimit(1))))))

\* `setgid(gid) < 0 || setuid(uid) < 0`: ret < 0 when either call failed.
app_set_ids(p, policy) ==
    AndThen(ReturnErrno(setgid(p, policy.sandbox_gid)), LAMBDA q :
    ReturnErrno(setuid(q, policy.sandbox_uid)))

AppNamespaces(policy) ==
    {"NEWNS", "NEWPID", "NEWUTS", "NEWIPC"}
        \cup (IF ~policy.network_access THEN {"NEWNET"} ELSE {})

app_child_namespaces ==
    /\ variant = "app" /\ cpc = "namespaces"
    /\ \E o \in ReturnErrno(unshare(proc, AppNamespaces(config))) :
          ChildStage(o, "namespaces",
                     audit_log_app_sandbox_event("namespace creation", o.ret), "mounts")
    /\ UNCHANGED lifeVars

app_child_mounts ==
    /\ variant = "app" /\ cpc = "mounts"
    /\ \E o \in setup_app_filesystem(proc, config) :
          ChildStage(o, "mounts",
                     audit_log_app_sandbox_event("filesystem setup", o.ret), "seccomp")
    /\ UNCHANGED lifeVars

app_child_seccomp ==
    /\ variant = "app" /\ cpc = "seccomp"
    /\ \E o \in apply_app_seccomp(proc) :
          ChildStage(o, "seccomp",
                     audit_log_app_sandbox_event("seccomp setup", o.ret), "capabilities")
    /\ UNCHANGED lifeVars

app_child_capabilities ==
    /\ variant = "app" /\ cpc = "capabilities"
    /\ \E o \in secureos_cap_drop_all_except(proc, config.allowed_capabilities) :
          ChildStage(o, "capabilities",
                     audit_log_app_sandbox_event("capability drop", o.ret), "limits")
    /\ UNCHANGED lifeVars

app_child_limits ==
    /\ variant = "app" /\ cpc = "limits"
    /\ \E o \in apply_app_resource_limits(proc, config) :
          ChildStage(o, "limits",
                     audit_log_app_sandbox_event("resource limits", o.ret), "user")
    /\ UNCHANGED lifeVars

\* The group and user change, then the check that uid 0 cannot be regained.
app_child_user ==
    /\ variant = "app" /\ cpc = "user"
    /\ \E o \in app_set_ids(proc, config) :
         IF o.p.life = "killed" THEN ChildKilled(o.p, <<>>)
         ELSE IF o.ret < 0
         THEN ChildExit(o.p, <<audit_log_app_sandbox_event("user change", o.ret)>>, "user")
         ELSE \E v \in setuid0(o.p) :
                IF v.p.life = "killed" THEN ChildKilled(v.p, <<>>)
                ELSE IF v.ret = 0
                THEN ChildExit(v.p, <<audit_log_app_sandbox_event("privilege check", -EPERM)>>,
                               "user")
                ELSE ChildAdvance(v.p, <<>>, "user", "exec")
    /\ UNCHANGED <<variant, config, callerUid, enforce, ppc, pret, nforks, cpid, services>>
    /\ UNCHANGED lifeVars

\* audit "creation"; execv(app_path, argv); _exit(EXIT_FAILURE);
app_child_exec ==
    /\ variant = "app" /\ cpc = "exec"
    /\ \E o \in execve(proc, config.app_path # "") :
         LET log == <<audit_log_app_sandbox_event("creation", 0)>> IN
         IF o.p.life = "killed" THEN ChildKilled(o.p, log)
         ELSE IF o.ret < 0 THEN ChildExit(o.p, log, "exec")
         ELSE /\ proc' = o.p
              /\ audit' = audit \o log
              /\ cpc' = "execed"
              /\ UNCHANGED <<stages, exitStatus, exitFrom>>
    /\ UNCHANGED <<variant, config, callerUid, enforce, ppc, pret, nforks, cpid, services>>
    /\ UNCHANGED lifeVars

create_app_sandbox ==
    /\ ppc = "idle" /\ variant = "none"
    /\ \E policy \in AppPolicies :
        LET ret == validate_app_policy(policy) IN
        /\ variant' = "app"
        /\ config' = policy
        /\ ppc' = "returned"
        /\ IF ret < 0
           THEN /\ audit' = Append(audit, audit_log_app_sandbox_event("validation", ret))
                /\ pret' = ret
                /\ NotForked
           ELSE /\ audit' = audit
                /\ \/ pret' = -EAGAIN /\ NotForked
                   \/ \E pid \in Pids : pret' = pid /\ Forked(pid, "namespaces")
    /\ UNCHANGED <<callerUid, enforce, stages, exitStatus, exitFrom, services>>
    /\ UNCHANGED lifeVars

(* ------------------------------------------------------------------------ *)
(* secure_sandbox.c: the phase3 sandbox                                     *)
(* ------------------------------------------------------------------------ *)
\* program = "" stands for a null program pointer.
Phase3Configs ==
    [null : {FALSE}, program : {"", "/bin/true"}, uid : Uids, gid : Uids,
     chroot_dir : BOOLEAN]

Stderr(msg) == Audit("stderr", msg, 0, FALSE)

install_seccomp_filter(p) ==
    AndThen(prctl_no_new_privs(p), LAMBDA q : prctl_seccomp(q, "filter"))

\* A failed remount of /proc (mount index -3) is only a warning.
setup_namespaces(p) ==
    AndThen(unshare(p, SandboxNamespaces), LAMBDA q :
        {IF o.p.life = "run" THEN [o EXCEPT !.ret = 0] ELSE o
            : o \in mount(q, -3, {"MS_NOSUID", "MS_NOEXEC", "MS_NODEV"})})

set_resource_limits(p) ==
    AndThen(setrlimit(p, "RLIMIT_AS", rlimit(512 * 1024 * 1024)), LAMBDA q :
    AndThen(setrlimit(q, "RLIMIT_NPROC", rlimit(64)), LAMBDA r :
    setrlimit(r, "RLIMIT_NOFILE", rlimit(256))))

\* The loop over the capabilities 0..37, a failed drop being skipped.
RECURSIVE CapbsetLoop(_, _)
CapbsetLoop(p, todo) ==
    IF todo = {} THEN {Out(p, 0)}
    ELSE LET cap == CHOOSE c \in todo : \A d \in todo : c <= d IN
         UNION {IF o.p.life = "run" THEN CapbsetLoop(o.p, todo \ {cap}) ELSE {o}
                  : o \in prctl_capbset_drop(p, cap)}

drop_capabilities_manual(p) ==
    AndThen(CapbsetLoop(p, {c \in CapBits : c <= 37}), LAMBDA q :
    prctl_no_new_privs(q))

\* `if (chroot_dir) { chroot(...); chdir("/"); }`
phase3_chroot(p, cfg) ==
    IF cfg.chroot_dir THEN AndThen(chroot(p), LAMBDA q : chdir(q)) ELSE {Out(p, 0)}

\* `if (gid > 0 && setgid(gid) < 0) _exit; if (uid > 0 && setuid(uid) < 0) _exit;`
phase3_set_ids(p, cfg) ==
    AndThen(IF cfg.gid > 0 THEN setgid(p, cfg.gid) ELSE {Out(p, 0)}, LAMBDA q :
    IF cfg.uid > 0 THEN setuid(q, cfg.uid) ELSE {Out(q, 0)})

phase3_child_namespaces ==
    /\ variant = "phase3" /\ cpc = "namespaces"
    /\ \E o \in setup_namespaces(proc) :
          ChildStage(o, "namespaces", Stderr("Failed to setup namespaces"), "chroot")
    /\ UNCHANGED lifeVars

phase3_child_chroot ==
    /\ variant = "phase3" /\ cpc = "chroot"
    /\ \E o \in phase3_chroot(proc, config) :
          ChildStage(o, "chroot", Stderr("chroot"), "limits")
    /\ UNCHANGED lifeVars

phase3_child_limits ==
    /\ variant = "phase3" /\ cpc = "limits"
    /\ \E o \in set_resource_limits(proc) :
          ChildStage(o, "limits", Stderr("Failed to set resource limits"), "capabilities")
    /\ UNCHANGED lifeVars

phase3_child_capabilities ==
    /\ variant = "phase3" /\ cpc = "capabilities"
    /\ \E o \in drop_capabilities_manual(proc) :
          ChildStage(o, "capabilities", Stderr("Failed to drop capabilities"), "user")
    /\ UNCHANGED lifeVars

phase3_child_user ==
    /\ variant = "phase3" /\ cpc = "user"
    /\ \E o \in phase3_set_ids(proc, config) :
          ChildStage(o, "user", Stderr("setgid/setuid"), "seccomp")
    /\ UNCHANGED lifeVars

phase3_child_seccomp ==
    /\ variant = "phase3" /\ cpc = "seccomp"
    /\ \E o \in install_seccomp_filter(proc) :
          ChildStage(o, "seccomp", Stderr("Failed to setup seccomp filter"), "exec")
    /\ UNCHANGED lifeVars

phase3_child_exec ==
    /\ variant = "phase3" /\ cpc = "exec"
    /\ \E o \in execve(proc, TRUE) :
         IF o.p.life = "killed" THEN ChildKilled(o.p, <<>>)
         ELSE IF o.ret < 0 THEN ChildExit(o.p, <<Stderr("execve")>>, "exec")
         ELSE /\ proc' = o.p
              /\ cpc' = "execed"
              /\ UNCHANGED <<audit, stages, exitStatus, exitFrom>>
    /\ UNCHANGED <<variant, config, callerUid, enforce, ppc, pret, nforks, cpid, services>>
    /\ UNCHANGED lifeVars

\* The wait status of the terminated child, and WEXITSTATUS of it.
WaitStatus == IF cpc = "killed" THEN SIGKILL ELSE exitStatus * 256
WEXITSTATUS(status) == (status \div 256) % 256

\* Validation and fork; the parent then blocks in waitpid.
create_secure_sandbox_phase3 ==
    /\ ppc = "idle" /\ variant = "none"
    /\ \E cfg \in Phase3Configs \cup {NullConfig} :
        /\ variant' = "phase3"
        /\ config' = cfg
        /\ IF cfg.null \/ cfg.program = ""
           THEN /\ pret' = -1 /\ ppc' = "returned" /\ NotForked
                /\ audit' = Append(audit, Stderr("Invalid sandbox configuration"))
           ELSE \/ /\ pret' = -1 /\ ppc' = "returned" /\ NotForked
                   /\ audit' = Append(audit, Stderr("fork"))
                \/ /\ \E pid \in Pids : Forked(pid, "namespaces")
                   /\ ppc' = "waitpid"
                   /\ UNCHANGED <<pret, audit>>
    /\ UNCHANGED <<callerUid, enforce, stages, exitStatus, exitFrom, services>>
    /\ UNCHANGED lifeVars

\* waitpid(pid, &status, 0) returns once the child has terminated.
phase3_waitpid ==
    /\ variant = "phase3" /\ ppc = "waitpid"
    /\ cpc \in {"exited", "killed"}
    /\ ppc' = "returned"
    /\ pret' = WEXITSTATUS(WaitStatus)
    /\ cpc' = "reaped"
    /\ UNCHANGED <<variant, config, callerUid, enforce, nforks, cpid, proc, stages,
                   audit, exitStatus, exitFrom, services>>
    /\ UNCHANGED lifeVars

\* The program the child became runs and exits with a status of its own.
target_exit ==
    /\ cpc = "execed"
    /\ \E code \in {0, 3} :
        /\ cpc' = "exited"
        /\ exitStatus' = code
        /\ exitFrom' = "target"
        /\ proc' = [proc EXCEPT !.life = "exited"]
    /\ UNCHANGED <<variant, config, callerUid, enforce, ppc, pret, nforks, cpid,
                   stages, audit, services>>
    /\ UNCHANGED lifeVars

(* ------------------------------------------------------------------------ *)
(* service_manager.c                                                        *)
(* ------------------------------------------------------------------------ *)
SERVICE_STOPPED == 0
SERVICE_STARTING == 1
SERVICE_RUNNING == 2
SERVICE_STOPPING == 3
SERVICE_FAILED == 4

ServiceNames == {"web"}

\* A loaded service: user_ok/group_ok say whether getpwnam/getgrnam find
\* the configured user and group, pw_uid/gr_gid what they map to.
ServiceConfigs ==
    [user_ok : BOOLEAN, group_ok : BOOLEAN, pw_uid : Uids, gr_gid : Uids,
     security_level : {0, 3}]

LoadedService(c) ==
    [config |-> c, uid |-> 0, gid |-> 0, pid |-> 0, state |-> SERVICE_STOPPED,
     restart_count |-> 0]

find_service(name) == IF name \in DOMAIN services THEN name ELSE "NULL"

\* Returns the result and the service with uid/gid filled in as far as the
\* function got.
validate_service_security(svc) ==
    IF ~svc.config.user_ok THEN [ret |-> -ENOENT, svc |-> svc]
    ELSE LET s1 == [svc EXCEPT !.uid = svc.config.pw_uid] IN
         IF ~svc.config.group_ok THEN [ret |-> -ENOENT, svc |-> s1]
         ELSE LET s2 == [s1 EXCEPT !.gid = svc.config.gr_gid] IN
              IF svc.config.security_level < 1 \/ svc.config.security_level > 5
              THEN [ret |-> -EINVAL, svc |-> s2]
              ELSE [ret |-> 0, svc |-> s2]

\* Each well-formed line of the file becomes a stopped service.
load_service_config ==
    /\ ppc = "idle" /\ variant = "none"
    /\ \E table \in [ServiceNames -> {LoadedService(c) : c \in ServiceConfigs}] :
          services' = table
    /\ variant' = "service"
    /\ UNCHANGED <<config, callerUid, enforce, ppc, pret, nforks, cpid, cpc, proc,
                   stages, audit, exitStatus, exitFrom>>
    /\ UNCHANGED lifeVars

start_service ==
    /\ ppc = "idle" /\ variant = "service"
    /\ \E name \in ServiceNames \cup {"nosuch"} :
        /\ UNCHANGED variant
        /\ ppc' = "returned"
        /\ UNCHANGED config
        /\ IF find_service(name) = "NULL"
           THEN pret' = -ENOENT /\ NotForked /\ UNCHANGED services
           ELSE IF services[name].state = SERVICE_RUNNING
           THEN pret' = 0 /\ NotForked /\ UNCHANGED services
           ELSE LET v == validate_service_security(services[name]) IN
                IF v.ret < 0
                THEN /\ pret' = v.ret /\ NotForked
                     /\ services' = [services EXCEPT ![name] = v.svc]
                ELSE \/ /\ pret' = -EAGAIN /\ NotForked
                        /\ services' = [services EXCEPT
                               ![name] = [v.svc EXCEPT !.state = SERVICE_FAILED]]
                     \/ \E pid \in Pids :
                        /\ Forked(pid, "user")
                        /\ pret' = 0
                        /\ services' = [services EXCEPT
                               ![name] = [v.svc EXCEPT !.state = SERVICE_RUNNING,
                                                       !.pid = pid]]
    /\ UNCHANGED <<callerUid, enforce, stages, audit, exitStatus, exitFrom>>
    /\ UNCHANGED lifeVars

\* `if (setgid(gid) < 0 || setuid(uid) < 0) _exit(EXIT_FAILURE);`
\* Mutant: the user id is changed before the group id.
Mut_service_set_ids_swapped(p, svc) ==
    AndThen(setuid(p, svc.uid), LAMBDA q : setgid(q, svc.gid))

service_set_ids(p, svc) ==
    AndThen(setgid(p, svc.gid), LAMBDA q : setuid(q, svc.uid))

TheService == CHOOSE n \in DOMAIN services : services[n].pid = cpid

service_child_user ==
    /\ variant = "service" /\ cpc = "user"
    /\ \E o \in service_set_ids(proc, services[TheService]) :
         /\ IF o.p.life = "killed" THEN ChildKilled(o.p, <<>>)
            ELSE IF o.ret < 0 THEN ChildExit(o.p, <<>>, "user")
            ELSE ChildAdvance(o.p, <<>>, "user", "exec")
    /\ UNCHANGED <<variant, config, callerUid, enforce, ppc, pret, nforks, cpid, services>>
    /\ UNCHANGED lifeVars

\* execl("/bin/sh", "sh", "-c", command, NULL); _exit(EXIT_FAILURE);
service_child_exec ==
    /\ variant = "service" /\ cpc = "exec"
    /\ \E o \in execve(proc, TRUE) :
         IF o.p.life = "killed" THEN ChildKilled(o.p, <<>>)
         ELSE IF o.ret < 0 THEN ChildExit(o.p, <<>>, "exec")
         ELSE /\ proc' = o.p
              /\ cpc' = "execed"
              /\ UNCHANGED <<audit, stages, exitStatus, exitFrom>>
    /\ UNCHANGED <<variant, config, callerUid, enforce, ppc, pret, nforks, cpid, services>>
    /\ UNCHANGED lifeVars

(* ------------------------------------------------------------------------ *)
(* container_security.c: the container runtime                              *)
(* ------------------------------------------------------------------------ *)
\* The policy together with the image_path argument of create_container
\* (image_path = "" stands for a null pointer).
ContainerPolicies ==
    [null : {FALSE}, name : {"", "c1"}, image_path : {"", "/img"},
     allowed_uid_min : Uids, allowed_uid_max : Uids,
     allowed_gid_min : Uids, allowed_gid_max : Uids,
     memory_limit : {0, 64}, cpu_limit : {0, 5},
     network_isolation : BOOLEAN]

\* Mutant: the gid range is not looked at.
Mut_validate_container_policy_nogid(policy) ==
    IF policy.null \/ policy.name = "" THEN -EINVAL
    ELSE IF policy.allowed_uid_min > policy.allowed_uid_max THEN -EINVAL
    ELSE IF policy.memory_limit = 0 \/ policy.cpu_limit = 0 THEN -EINVAL
    ELSE 0

validate_container_policy(policy) ==
    IF policy.null \/ policy.name = "" THEN -EINVAL
    ELSE IF policy.allowed_uid_min > policy.allowed_uid_max THEN -EINVAL
    ELSE IF policy.allowed_gid_min > policy.allowed_gid_max THEN -EINVAL
    ELSE IF policy.memory_limit = 0 \/ policy.cpu_limit = 0 THEN -EINVAL
    ELSE 0

\* fopen(cgroup_path, "w"): the open of the container's memory cgroup file.
fopen_cgroup(p) == Sys(p, "fopen", 0, {"memory_cgroup"}, TRUE, p, TRUE)

\* fprintf and fclose: the limit reaches the cgroup file or the write fails.
fprintf_cgroup(p, limit) == Sys(p, "fprintf", limit, {"memory_cgroup"}, TRUE, p, TRUE)

\* `if (memory_limit) { fprintf(...); fclose(...); }`: nothing is done when
\* the open failed, and the result of the write is not looked at.
apply_cgroup_limit(p, policy) ==
    UNION {IF o.p.life # "run" THEN {o}
           ELSE IF o.ret < 0 THEN {[o EXCEPT !.ret = 0]}
           ELSE {IF w.p.life = "run" THEN [w EXCEPT !.ret = 0] ELSE w
                   : w \in fprintf_cgroup(o.p, policy.memory_limit)}
             : o \in fopen_cgroup(p)}

apply_container_security(p, policy) ==
    AndThen(apply_cgroup_limit(p, policy), LAMBDA q :
    IF policy.network_isolation THEN ReturnErrno(unshare(q, {"NEWNET"}))
                                ELSE {Out(q, 0)})

\* runtime.container_pid = getpid(); ret = apply_container_security(&runtime);
container_child_security ==
    /\ variant = "container" /\ cpc = "security"
    /\ \E o \in AndThen(getpid(proc), LAMBDA q : apply_container_security(q, config)) :
         IF o.p.life = "killed" THEN ChildKilled(o.p, <<>>)
         ELSE IF o.ret < 0 THEN ChildExit(o.p, <<>>, "security")
         ELSE ChildAdvance(o.p, <<>>, "security", "exec")
    /\ UNCHANGED <<variant, config, callerUid, enforce, ppc, pret, nforks, cpid, services>>
    /\ UNCHANGED lifeVars

\* execl("/bin/sh", "sh", "-c", image_path, NULL); _exit(EXIT_FAILURE);
container_child_exec ==
    /\ variant = "container" /\ cpc = "exec"
    /\ \E o \in execve(proc, TRUE) :
         IF o.p.life = "killed" THEN ChildKilled(o.p, <<>>)
         ELSE IF o.ret < 0 THEN ChildExit(o.p, <<>>, "exec")
         ELSE /\ proc' = o.p
              /\ cpc' = "execed"
              /\ UNCHANGED <<audit, stages, exitStatus, exitFrom>>
    /\ UNCHANGED <<variant, config, callerUid, enforce, ppc, pret, nforks, cpid, services>>
    /\ UNCHANGED lifeVars

create_container ==
    /\ ppc = "idle" /\ variant = "none"
    /\ \E policy \in ContainerPolicies \cup {NullConfig} :
        LET ret == IF policy.null \/ policy.image_path = "" THEN -EINVAL
                   ELSE validate_container_policy(policy) IN
        /\ variant' = "container"
        /\ config' = policy
        /\ ppc' = "returned"
        /\ IF ret < 0
           THEN pret' = ret /\ NotForked
           ELSE \/ pret' = -EAGAIN /\ NotForked
                \/ \E pid \in Pids : pret' = pid /\ Forked(pid, "security")
    /\ UNCHANGED <<callerUid, enforce, stages, audit, exitStatus, exitFrom, services>>
    /\ UNCHANGED lifeVars

(* ------------------------------------------------------------------------ *)
(* The life of an instance after spawn: terminate_app_sandbox and           *)
(* stop_service                                                             *)
(* ------------------------------------------------------------------------ *)
\* The two instances a caller of the app sandbox holds, and whoever may own
\* a child process of the parent.
InstIds == {"i1", "i2"}
Callers == InstIds \cup ServiceNames

\* struct app_sandbox_context as the caller fills it after a spawn.
NoCtx ==
    [made |-> FALSE, sandbox_pid |-> 0, status |-> 0, app_name |-> "", memory_limit |-> 0]
NewCtx(pid, policy) ==
    [made |-> TRUE, sandbox_pid |-> pid, status |-> 1, app_name |-> policy.app_name,
     memory_limit |-> policy.memory_limit]

\* The context the caller fills next.
NextInst == IF ~ctx["i1"].made THEN "i1" ELSE "i2"

\* The terminate and stop calls made so far.
RECURSIVE SumLen(_)
SumLen(S) ==
    IF S = {} THEN 0
    ELSE LET c == CHOOSE x \in S : TRUE IN Len(rets[c]) + SumLen(S \ {c})
RECURSIVE SumRestarts(_)
SumRestarts(S) ==
    IF S = {} THEN 0
    ELSE LET n == CHOOSE x \in S : TRUE IN services[n].restart_count + SumRestarts(S \ {n})
CallsMade ==
    SumLen(Callers) + SumRestarts(DOMAIN services)
        + (IF ppc \in {"sleep", "restart"} THEN 1 ELSE 0)

IsChild(pid) == ptable[pid].owner \in Callers

\* kill(pid, sig) by the parent: 0, or the negated errno.  A process of
\* somebody else belongs to root.
kill(pid, sig) ==
    IF ptable[pid].st = "free" THEN -ESRCH
    ELSE IF ptable[pid].owner = "other" /\ callerUid # ROOT THEN -EPERM
    ELSE 0

\* kill(pid, sig) on the process of a service.  That process runs a command
\* of its own under /bin/sh; when the command has taken other credentials
\* (a set-user-ID program), a parent that is not root may not signal it.
kill_service(pid, sig) ==
    {kill(pid, sig)} \cup
        (IF ptable[pid].st = "running" /\ IsChild(pid) /\ callerUid # ROOT
         THEN {-EPERM} ELSE {})

\* The record of a kill() made on behalf of `by` in its n-th call: the
\* process that received the signal and the state it was in.
Signal(by, pid, sig, res) ==
    [by |-> by, n |-> Len(rets[by]) + 1, pid |-> pid, sig |-> sig, res |-> res,
     hit |-> IF res = 0 THEN ptable[pid].owner ELSE "none",
     was |-> ptable[pid].st]

\* waitpid(pid, &status, WNOHANG): 0 for a child that still runs, the pid
\* for a child that is reaped by the call, -1 when pid is no child.
waitpid_nohang(pid) ==
    IF ~IsChild(pid) THEN -1
    ELSE IF ptable[pid].st = "running" THEN 0
    ELSE pid

\* Mutant: the process is killed but never waited for.
Mut_reap_or_kill_noreap(by, pid) ==
    IF waitpid_nohang(pid) = 0
    THEN /\ signals' = Append(signals, Signal(by, pid, SIGKILL, 0))
         /\ ptable' = [ptable EXCEPT ![pid] = Zombie(ptable[pid].owner)]
    ELSE UNCHANGED <<ptable, signals>>

\* `if (waitpid(pid, &status, WNOHANG) == 0) { kill(pid, SIGKILL);
\*      waitpid(pid, &status, 0); }`
reap_or_kill(by, pid) ==
    IF waitpid_nohang(pid) = 0
    THEN /\ signals' = Append(signals, Signal(by, pid, SIGKILL, 0))
         /\ ptable' = [ptable EXCEPT ![pid] = Free]
    ELSE IF waitpid_nohang(pid) = pid
    THEN /\ ptable' = [ptable EXCEPT ![pid] = Free]
         /\ UNCHANGED signals
    ELSE UNCHANGED <<ptable, signals>>

\* The spawn call has returned.  The caller keeps the instance (for the app
\* sandbox: fills an app_sandbox_context with the pid returned) and is ready
\* for its next call; the child, if there is one, runs on as a process of
\* its own.
caller_keeps_instance ==
    /\ ppc = "returned"
    /\ variant \in {"app", "service"}
    /\ IF cpid = 0
       THEN UNCHANGED <<ptable, ctx>>
       ELSE IF variant = "app"
       THEN /\ ~ctx[NextInst].made
            /\ ctx' = [ctx EXCEPT ![NextInst] = NewCtx(pret, config)]
            /\ ptable' = [ptable EXCEPT ![cpid] = Running(NextInst)]
       ELSE /\ ptable' = [ptable EXCEPT ![cpid] = Running(TheService)]
            /\ UNCHANGED ctx
    /\ ppc' = "idle"
    /\ variant' = IF variant = "service" THEN "service" ELSE "none"
    /\ config' = NullConfig
    /\ cpid' = 0
    /\ cpc' = "none"
    /\ proc' = NoProcess
    /\ stages' = <<>>
    /\ exitStatus' = -1
    /\ exitFrom' = "none"
    /\ UNCHANGED <<callerUid, enforce, pret, nforks, audit, services, signals, target, rets>>
    /\ UNCHANGED monVars
    /\ UNCHANGED otherVars

\* A process of the parent exits: on its own, or because a SIGTERM reached it.
process_exits ==
    /\ \E pid \in Pids :
        /\ IsChild(pid) /\ ptable[pid].st = "running"
        /\ ptable' = [ptable EXCEPT ![pid] = Zombie(ptable[pid].owner)]
        /\ vmrss' = [vmrss EXCEPT ![pid] = 0]
    /\ UNCHANGED mon
    /\ UNCHANGED <<variant, config, callerUid, enforce, ppc, pret, nforks, cpid, cpc, proc,
                   stages, audit, exitStatus, exitFrom, services, ctx, signals, target, rets>>
    /\ UNCHANGED otherVars

\* The kernel gives a free pid to a process of somebody else (followed only
\* for a pid that an instance still names).
pid_reused ==
    /\ \E pid \in Pids :
        /\ ptable[pid] = Free /\ pid # cpid
        /\ \E i \in InstIds : ctx[i].made /\ ctx[i].sandbox_pid = pid
        /\ ptable' = [ptable EXCEPT ![pid] = Running("other")]
    /\ UNCHANGED <<variant, config, callerUid, enforce, ppc, pret, nforks, cpid, cpc, proc,
                   stages, audit, exitStatus, exitFrom, services, ctx, signals, target, rets>>
    /\ UNCHANGED monVars
    /\ UNCHANGED otherVars

other_process_ends ==
    /\ \E pid \in Pids :
        /\ ptable[pid].owner = "other"
        /\ ptable' = [ptable EXCEPT ![pid] = Free]
    /\ UNCHANGED <<variant, config, callerUid, enforce, ppc, pret, nforks, cpid, cpc, proc,
                   stages, audit, exitStatus, exitFrom, services, ctx, signals, target, rets>>
    /\ vmrss' = [p \in Pids |-> IF ptable'[p].st = "running" THEN vmrss[p] ELSE 0]
    /\ UNCHANGED mon
    /\ UNCHANGED otherVars

\* terminate_app_sandbox up to sleep(5): the null check and the SIGTERM.
terminate_app_sandbox_begin ==
    /\ ppc = "idle"
    /\ \E i \in InstIds :
        IF ~ctx[i].made
        THEN /\ pret' = -EINVAL
             /\ UNCHANGED <<ppc, signals, target, rets>>
        ELSE LET r == kill(ctx[i].sandbox_pid, SIGTERM) IN
             /\ CallsMade < MaxCalls
             /\ signals' = Append(signals, Signal(i, ctx[i].sandbox_pid, SIGTERM, r))
             /\ IF r < 0
                THEN /\ pret' = r
                     /\ rets' = [rets EXCEPT ![i] = Append(@, r)]
                     /\ UNCHANGED <<ppc, target>>
                ELSE /\ ppc' = "sleep"
                     /\ target' = i
                     /\ UNCHANGED <<pret, rets>>
    /\ UNCHANGED <<variant, config, callerUid, enforce, nforks, cpid, cpc, proc,
                   stages, audit, exitStatus, exitFrom, services, ptable, ctx>>
    /\ UNCHANGED monVars
    /\ UNCHANGED otherVars

\* terminate_app_sandbox after sleep(5): the forced kill, the audit record
\* and the status.
terminate_app_sandbox_end ==
    /\ ppc = "sleep" /\ target \in InstIds
    /\ reap_or_kill(target, ctx[target].sandbox_pid)
    /\ audit' = Append(audit, audit_log_app_sandbox_event("termination", 0))
    /\ ctx' = [ctx EXCEPT ![target].status = 0]
    /\ pret' = 0
    /\ rets' = [rets EXCEPT ![target] = Append(@, 0)]
    /\ ppc' = "idle"
    /\ target' = "none"
    /\ UNCHANGED <<variant, config, callerUid, enforce, nforks, cpid, cpc, proc,
                   stages, exitStatus, exitFrom, services>>
    /\ vmrss' = [p \in Pids |-> IF ptable'[p].st = "running" THEN vmrss[p] ELSE 0]
    /\ UNCHANGED mon
    /\ UNCHANGED otherVars

\* stop_service up to sleep(5).
stop_service_begin ==
    /\ ppc = "idle" /\ variant = "service"
    /\ \E name \in ServiceNames \cup {"nosuch"} :
        IF find_service(name) = "NULL"
        THEN /\ pret' = -ENOENT
             /\ UNCHANGED <<ppc, services, signals, target, rets>>
        ELSE /\ CallsMade < MaxCalls
             /\ IF services[name].state # SERVICE_RUNNING
                THEN /\ pret' = 0
                     /\ rets' = [rets EXCEPT ![name] = Append(@, 0)]
                     /\ UNCHANGED <<ppc, services, signals, target>>
                ELSE \E r \in kill_service(services[name].pid, SIGTERM) :
                     /\ services' = [services EXCEPT ![name].state = SERVICE_STOPPING]
                     /\ signals' = Append(signals,
                                          Signal(name, services[name].pid, SIGTERM, r))
                     /\ IF r < 0
                        THEN /\ pret' = r
                             /\ rets' = [rets EXCEPT ![name] = Append(@, r)]
                             /\ UNCHANGED <<ppc, target>>
                        ELSE /\ ppc' = "sleep"
                             /\ target' = name
                             /\ UNCHANGED <<pret, rets>>
    /\ UNCHANGED <<variant, config, callerUid, enforce, nforks, cpid, cpc, proc,
                   stages, audit, exitStatus, exitFrom, ptable, ctx>>
    /\ UNCHANGED monVars
    /\ UNCHANGED otherVars

\* stop_service after sleep(5).
stop_service_end ==
    /\ ppc = "sleep" /\ target \in ServiceNames
    /\ reap_or_kill(target, services[target].pid)
    /\ services' = [services EXCEPT ![target].state = SERVICE_STOPPED,
                                    ![target].pid = 0]
    /\ pret' = 0
    /\ rets' = [rets EXCEPT ![target] = Append(@, 0)]
    /\ ppc' = "idle"
    /\ target' = "none"
    /\ UNCHANGED <<variant, config, callerUid, enforce, nforks, cpid, cpc, proc,
                   stages, audit, exitStatus, exitFrom, ctx>>
    /\ vmrss' = [p \in Pids |-> IF ptable'[p].st = "running" THEN vmrss[p] ELSE 0]
    /\ UNCHANGED mon
    /\ UNCHANGED otherVars

\* What start_service(name) does to the table `table` when the pids in
\* `free` are free: the value returned, the table afterwards and the pid of
\* the child forked (0: none).
start_outcomes(name, table, free) ==
    IF name \notin DOMAIN table THEN {[ret |-> -ENOENT, table |-> table, pid |-> 0]}
    ELSE IF table[name].state = SERVICE_RUNNING
    THEN {[ret |-> 0, table |-> table, pid |-> 0]}
    ELSE LET v == validate_service_security(table[name]) IN
         IF v.ret < 0
         THEN {[ret |-> v.ret, table |-> [table EXCEPT ![name] = v.svc], pid |-> 0]}
         ELSE {[ret |-> -EAGAIN, pid |-> 0,
                table |-> [table EXCEPT
                              ![name] = [v.svc EXCEPT !.state = SERVICE_FAILED]]]}
              \cup {[ret |-> 0, pid |-> pid,
                     table |-> [table EXCEPT
                                   ![name] = [v.svc EXCEPT !.state = SERVICE_RUNNING,
                                                           !.pid = pid]]]
                      : pid \in free}

\* The start_service call at the end of restart_service.
RestartStart(o) ==
    /\ services' = o.table
    /\ pret' = o.ret
    /\ IF o.pid = 0
       THEN /\ ppc' = "idle"
            /\ UNCHANGED <<nforks, cpid, cpc, proc>>
       ELSE /\ ppc' = "returned"
            /\ nforks' = nforks + 1
            /\ cpid' = o.pid
            /\ cpc' = "user"
            /\ proc' = NewProcess(callerUid)

\* restart_service up to the sleep(5) of its stop_service call; when that
\* call returns at once, the whole of restart_service.
restart_service_begin ==
    /\ ppc = "idle" /\ variant = "service"
    /\ \E name \in ServiceNames \cup {"nosuch"} :
        IF find_service(name) = "NULL"
        THEN /\ pret' = -ENOENT
             /\ UNCHANGED <<ppc, services, signals, target, nforks, cpid, cpc, proc>>
        ELSE /\ CallsMade < MaxCalls
             /\ IF services[name].state # SERVICE_RUNNING
                THEN /\ \E o \in start_outcomes(name,
                                    [services EXCEPT ![name].restart_count = @ + 1],
                                    {pid \in Pids : ptable[pid] = Free}) :
                            RestartStart(o)
                     /\ UNCHANGED <<signals, target>>
                ELSE \E r \in kill_service(services[name].pid, SIGTERM) :
                     /\ services' = [services EXCEPT ![name].state = SERVICE_STOPPING]
                     /\ signals' = Append(signals,
                                          Signal(name, services[name].pid, SIGTERM, r))
                     /\ UNCHANGED <<nforks, cpid, cpc, proc>>
                     /\ IF r < 0
                        THEN /\ pret' = r
                             /\ UNCHANGED <<ppc, target>>
                        ELSE /\ ppc' = "restart"
                             /\ target' = name
                             /\ UNCHANGED pret
    /\ UNCHANGED <<variant, config, callerUid, enforce, stages, audit, exitStatus,
                   exitFrom, ptable, ctx, rets>>
    /\ UNCHANGED monVars
    /\ UNCHANGED otherVars

\* restart_service after the sleep(5): the rest of stop_service, the count
\* and start_service.
restart_service_end ==
    /\ ppc = "restart" /\ target \in ServiceNames
    /\ reap_or_kill(target, services[target].pid)
    /\ \E o \in start_outcomes(target,
                   [services EXCEPT ![target].state = SERVICE_STOPPED,
                                    ![target].pid = 0,
                                    ![target].restart_count = @ + 1],
                   {pid \in Pids : ptable'[pid] = Free}) :
          RestartStart(o)
    /\ target' = "none"
    /\ UNCHANGED <<variant, config, callerUid, enforce, stages, audit, exitStatus,
                   exitFrom, ctx, rets>>
    /\ vmrss' = [p \in Pids |-> IF ptable'[p].st = "running" THEN vmrss[p] ELSE 0]
    /\ UNCHANGED mon
    /\ UNCHANGED otherVars

(* ---------------------------------------------------- monitor_app_sandbox *)
\* The resident set sizes a status file can show, in kB.
RssValues == 0..MaxRss

\* The resident memory of a running process changes.
memory_changes ==
    /\ \E pid \in Pids : \E kb \in RssValues \ {vmrss[pid]} :
        /\ ptable[pid].st = "running"
        /\ vmrss' = [vmrss EXCEPT ![pid] = kb]
    /\ UNCHANGED <<variant, config, callerUid, enforce, ppc, pret, nforks, cpid, cpc, proc,
                   stages, audit, exitStatus, exitFrom, services, ptable, ctx, signals,
                   target, rets, mon>>
    /\ UNCHANGED otherVars

\* fopen("/proc/<pid>/status", "r") for a pid that kill() found: 0 stands
\* for the stream; the open fails when the caller has no descriptor or the
\* kernel no memory left.
FopenErrnos == {EMFILE, ENOMEM}
fopen_proc_status(pid) == {0} \cup {-e : e \in FopenErrnos}

\* The status file of an exited, un-reaped process has no VmRSS line.
HasVmRSS(pid) == ptable[pid].st = "running"

NoMon ==
    [fn |-> "none", inst |-> "none", ret |-> 0, log |-> <<>>,
     st |-> "free", owner |-> "none", rss |-> 0, fopen |-> 0]

\* One call of monitor_app_sandbox on the context of instance i ("NULL": a
\* null pointer): what it returns, the status it leaves in the context and
\* the audit records it emits, with what was true of the pid at that time.
MonOut(i, ret, status, log, fo) ==
    LET pid == IF i = "NULL" THEN 0 ELSE ctx[i].sandbox_pid IN
    [fn |-> "monitor_app_sandbox", inst |-> i, ret |-> ret, log |-> log,
     status |-> status,
     st |-> IF pid = 0 THEN "free" ELSE ptable[pid].st,
     owner |-> IF pid = 0 THEN "none" ELSE ptable[pid].owner,
     rss |-> IF pid = 0 THEN 0 ELSE vmrss[pid],
     fopen |-> fo]

monitor_outcomes(i) ==
    IF i = "NULL" THEN {MonOut(i, -EINVAL, 0, <<>>, 0)}
    ELSE LET c == ctx[i]
             pid == c.sandbox_pid
             k == kill(pid, 0)
         IN  IF k < 0
             THEN IF k = -ESRCH
                  THEN {MonOut(i, 0, 0, <<>>, 0)}
                  ELSE {MonOut(i, k, c.status, <<>>, 0)}
             ELSE {IF f < 0
                   THEN MonOut(i, f, c.status, <<>>, f)
                   ELSE IF HasVmRSS(pid) /\ vmrss[pid] * KB > c.memory_limit
                   THEN MonOut(i, -ENOMEM, c.status,
                               <<audit_log_app_sandbox_event("memory limit exceeded",
                                                             -ENOMEM)>>, f)
                   ELSE MonOut(i, 1, c.status, <<>>, f)
                   : f \in fopen_proc_status(pid)}

\* The caller polls an instance.  The audit record of a violation goes to
\* the log of the call.
monitor_app_sandbox ==
    /\ ppc = "idle" /\ mon = NoMon
    /\ \E i \in {j \in InstIds : ctx[j].made} \cup {"NULL"} :
        \E o \in monitor_outcomes(i) :
            /\ mon' = [f \in DOMAIN NoMon |-> o[f]]
            /\ pret' = o.ret
            /\ ctx' = IF i = "NULL" THEN ctx ELSE [ctx EXCEPT ![i].status = o.status]
    /\ UNCHANGED <<variant, config, callerUid, enforce, ppc, nforks, cpid, cpc, proc,
                   stages, audit, exitStatus, exitFrom, services, ptable, signals,
                   target, rets, vmrss>>
    /\ UNCHANGED otherVars

\* The caller has taken the value monitor returned and is ready to poll
\* again.
caller_polls_again ==
    /\ mon # NoMon
    /\ mon' = NoMon
    /\ UNCHANGED <<variant, config, callerUid, enforce, ppc, pret, nforks, cpid, cpc, proc,
                   stages, audit, exitStatus, exitFrom, services, ptable, ctx, signals,
                   target, rets, vmrss>>
    /\ UNCHANGED otherVars


(* ------------------------------------------------------------------------ *)
(* security_monitor.c                                                       *)
(* ------------------------------------------------------------------------ *)
\* Texts are sequences of characters.
EventTexts == {<<"a">>, <<"b", "a", "b">>}
Patterns == {<<"b">>, <<"a", "b">>}

NullEvent == [null |-> TRUE]
\* The events offered: without a timestamp and of high severity, or with a
\* timestamp and of low severity.
SecurityEvents ==
    {[null |-> FALSE, type |-> t, details |-> d, timestamp |-> ts,
      severity |-> IF ts = 0 THEN 8 ELSE 0] :
        t \in {EVENT_PROCESS_START, EVENT_POLICY_VIOLATION}, d \in EventTexts,
        ts \in {0, 9}}

Rule(id, type, pattern, action, enabled) ==
    [rule_id |-> id, event_type |-> type, pattern |-> pattern,
     action |-> action, enabled |-> enabled]

\* A line of a rules file: the number of fields sscanf converts, and the
\* rule they make when all five are there.
Line(rule) == [fields |-> 5, rule |-> rule]
ShortLine == [fields |-> 2, rule |-> Rule(0, 0, <<>>, 0, 0)]

\* The rules files: two enabled rules for the same event type; a line that
\* does not parse and a disabled rule; a rule of another type with an
\* action number the switch does not know.
RulesFiles ==
    {<<Line(Rule(1, EVENT_PROCESS_START, <<"a", "b">>, 0, 1)),
       Line(Rule(2, EVENT_PROCESS_START, <<"b">>, 2, 1))>>,
     <<ShortLine, Line(Rule(3, EVENT_PROCESS_START, <<"b">>, 1, 0))>>,
     <<Line(Rule(4, EVENT_POLICY_VIOLATION, <<"a", "b">>, 3, 1))>>}

Syslog(level, what, id, text) == [level |-> level, what |-> what, id |-> id, text |-> text]

NoSecCall == [fn |-> "none", ret |-> 0, log |-> <<>>]
SecCall(fn, ret, log) == [fn |-> fn, ret |-> ret, log |-> log]

\* time(NULL): the clock has moved on with every event stored.
time_now == 1 + Len(events)

\* Mutant: init clears the buffers whenever it is called.
Mut_init_security_monitor_clears ==
    /\ events' = <<>>
    /\ rules' = <<>>
    /\ monitor_initialized' = TRUE
    /\ seccall' = SecCall("init_security_monitor", 0,
                          <<Syslog("LOG_INFO", "initialized", 0, <<>>)>>)
    /\ UNCHANGED nonSecVars

init_security_monitor ==
    /\ IF monitor_initialized
       THEN /\ seccall' = SecCall("init_security_monitor", 0, <<>>)
            /\ UNCHANGED <<events, rules, monitor_initialized>>
       ELSE /\ events' = <<>>
            /\ rules' = <<>>
            /\ monitor_initialized' = TRUE
            /\ seccall' = SecCall("init_security_monitor", 0,
                                  <<Syslog("LOG_INFO", "initialized", 0, <<>>)>>)
    /\ UNCHANGED nonSecVars

\* Mutant: the buffer is taken for full one event late.
Mut_add_security_event_late ==
    /\ \E event \in SecurityEvents \cup {NullEvent} :
        IF ~monitor_initialized
        THEN /\ seccall' = SecCall("add_security_event", -EINVAL, <<>>)
             /\ UNCHANGED events
        ELSE IF event.null \/ Len(events) > MAX_EVENTS
        THEN /\ seccall' = SecCall("add_security_event", -EINVAL, <<>>)
             /\ UNCHANGED events
        ELSE /\ events' = Append(events, event)
             /\ seccall' = SecCall("add_security_event", 0, <<>>)
    /\ UNCHANGED <<rules, monitor_initialized>>
    /\ UNCHANGED nonSecVars

add_security_event ==
    /\ \E event \in SecurityEvents \cup {NullEvent} :
        IF ~monitor_initialized
        THEN /\ seccall' = SecCall("add_security_event", -EINVAL, <<>>)
             /\ UNCHANGED events
        ELSE IF event.null \/ Len(events) >= MAX_EVENTS
        THEN /\ seccall' = SecCall("add_security_event", -EINVAL, <<>>)
             /\ UNCHANGED events
        ELSE LET stamped == IF event.timestamp = 0
                            THEN [event EXCEPT !.timestamp = time_now]
                            ELSE event
             IN  /\ events' = Append(events, stamped)
                 /\ seccall' = SecCall("add_security_event", 0,
                        IF event.severity >= 8
                        THEN <<Syslog("LOG_ALERT", "high severity", 0, event.details)>>
                        ELSE <<>>)
    /\ UNCHANGED <<rules, monitor_initialized>>
    /\ UNCHANGED nonSecVars

\* while (fgets(line) && rule_count < MAX_RULES): a line counts as a rule
\* when sscanf converts its five fields.
RECURSIVE LoadRules(_, _, _)
LoadRules(rs, file, k) ==
    IF k > Len(file) \/ Len(rs) >= MAX_RULES THEN rs
    ELSE IF file[k].fields = 5 THEN LoadRules(Append(rs, file[k].rule), file, k + 1)
    ELSE LoadRules(rs, file, k + 1)

load_security_rules ==
    /\ \E exists \in BOOLEAN : \E file \in IF exists THEN RulesFiles ELSE {<<>>} :
        IF ~monitor_initialized
        THEN /\ seccall' = SecCall("load_security_rules", -EINVAL, <<>>)
             /\ UNCHANGED rules
        ELSE IF ~exists
        THEN /\ seccall' = SecCall("load_security_rules", -ENOENT, <<>>)
             /\ UNCHANGED rules
        ELSE /\ rules' = LoadRules(rules, file, 1)
             /\ seccall' = SecCall("load_security_rules", Len(rules'),
                                   <<Syslog("LOG_INFO", "loaded", Len(rules'), <<>>)>>)
    /\ UNCHANGED <<events, monitor_initialized>>
    /\ UNCHANGED nonSecVars

\* strstr(text, pattern): the first offset from `from` on at which pattern
\* starts in text, -1 for NULL.
RECURSIVE strstr_from(_, _, _)
strstr_from(text, pattern, from) ==
    IF from + Len(pattern) > Len(text) THEN -1
    ELSE IF \A k \in 1..Len(pattern) : text[from + k] = pattern[k] THEN from
    ELSE strstr_from(text, pattern, from + 1)

match_rule_pattern(pattern, text) == strstr_from(text, pattern, 0) # -1

ActionLevel(action) ==
    IF action = 0 THEN "LOG_WARNING"
    ELSE IF action = 1 THEN "LOG_ALERT"
    ELSE IF action = 2 THEN "LOG_CRIT"
    ELSE "none"

\* The body of the rule loop for event i and rule j: acc holds the matches
\* counted and the syslog lines written so far.
RuleStep(acc, i, j) ==
    IF rules[j].enabled = 0 \/ rules[j].event_type # events[i].type THEN acc
    ELSE IF match_rule_pattern(rules[j].pattern, events[i].details)
    THEN [processed |-> acc.processed + 1,
          log |-> IF ActionLevel(rules[j].action) = "none" THEN acc.log
                  ELSE Append(acc.log, Syslog(ActionLevel(rules[j].action), "rule",
                                              rules[j].rule_id, events[i].details)),
          pairs |-> Append(acc.pairs, <<i, j>>)]
    ELSE acc

\* Mutant: the rule loop of an event ends at its first match.
RECURSIVE Mut_RuleLoop_first_match(_, _, _)
Mut_RuleLoop_first_match(acc, i, j) ==
    IF j > Len(rules) THEN acc
    ELSE IF RuleStep(acc, i, j) # acc THEN RuleStep(acc, i, j)
    ELSE Mut_RuleLoop_first_match(acc, i, j + 1)

RECURSIVE RuleLoop(_, _, _)
RuleLoop(acc, i, j) ==
    IF j > Len(rules) THEN acc
    ELSE RuleLoop(RuleStep(acc, i, j), i, j + 1)

RECURSIVE EventLoop(_, _)
EventLoop(acc, i) ==
    IF i > Len(events) THEN acc
    ELSE EventLoop(RuleLoop(acc, i, 1), i + 1)

process_security_events ==
    /\ IF ~monitor_initialized
       THEN seccall' = [fn |-> "process_security_events", ret |-> -EINVAL,
                        log |-> <<>>, pairs |-> <<>>]
       ELSE LET done == EventLoop([processed |-> 0, log |-> <<>>, pairs |-> <<>>], 1)
            IN  seccall' = [fn |-> "process_security_events", ret |-> done.processed,
                            log |-> done.log, pairs |-> done.pairs]
    /\ UNCHANGED <<events, rules, monitor_initialized>>
    /\ UNCHANGED nonSecVars

ViolationLevel(type) ==
    IF type = EVENT_PRIVILEGE_ESCALATION THEN "LOG_ALERT"
    ELSE IF type = EVENT_POLICY_VIOLATION THEN "LOG_WARNING"
    ELSE IF type = EVENT_ANOMALY_DETECTED THEN "LOG_NOTICE"
    ELSE "none"

RECURSIVE ViolationLoop(_, _)
ViolationLoop(acc, i) ==
    IF i > Len(events) THEN acc
    ELSE IF ViolationLevel(events[i].type) = "none" THEN ViolationLoop(acc, i + 1)
    ELSE ViolationLoop([violations |-> acc.violations + 1,
                        log |-> Append(acc.log, Syslog(ViolationLevel(events[i].type),
                                                       "violation", i, events[i].details))],
                       i + 1)

check_security_violations ==
    /\ IF ~monitor_initialized
       THEN seccall' = SecCall("check_security_violations", -EINVAL, <<>>)
       ELSE LET done == ViolationLoop([violations |-> 0, log |-> <<>>], 1)
            IN  seccall' = SecCall("check_security_violations", done.violations, done.log)
    /\ UNCHANGED <<events, rules, monitor_initialized>>
    /\ UNCHANGED nonSecVars

(* ------------------------------------------------------------------------ *)
(* input_security.c                                                         *)
(* ------------------------------------------------------------------------ *)
\* The shortest time between two accepted events, in nanoseconds.
MinGapNs == NSEC_PER_SEC \div MAX_INPUT_RATE_PER_SEC

\* The monotonic clock starts one gap before a full second.
BootTime == NSEC_PER_SEC - MinGapNs
ClockSteps == {MinGapNs - 1, MinGapNs}

Timespec(ns) == [tv_sec |-> ns \div NSEC_PER_SEC, tv_nsec |-> ns % NSEC_PER_SEC]
clock_gettime == Timespec(clock)

NoInputCtx ==
    [made |-> FALSE, security_level |-> 0, keyboard_allowed |-> FALSE,
     mouse_allowed |-> FALSE, touch_allowed |-> FALSE, last_input_time |-> Timespec(0)]

InputEvents ==
    {e \in [null : {FALSE}, type : {EV_KEY, EV_REL, EV_ABS, EV_MSC},
            code : {KEY_A, KEY_SYSRQ, KEY_PAUSE, KEY_SCROLLLOCK, BTN_MOUSE, ABS_X},
            value : {1}] :
        \/ e.type = EV_KEY /\ e.code \in {KEY_A, KEY_SYSRQ, KEY_PAUSE, KEY_SCROLLLOCK}
        \/ e.type = EV_REL /\ e.code \in {BTN_MOUSE, KEY_SYSRQ}
        \/ e.type = EV_ABS /\ e.code = ABS_X
        \/ e.type = EV_MSC /\ e.code = KEY_SYSRQ}

NoInCall ==
    [fn |-> "none", event |-> NullEvent, event_out |-> NullEvent, ret |-> 0,
     log |-> <<>>, before |-> NoInputCtx, at |-> Timespec(0)]

\* A call record: the event and context given, the time of the call, the
\* event as the call left it, the value returned and the violations logged.
InCall(fn, event, event_out, ret, log) ==
    [fn |-> fn, event |-> event, event_out |-> event_out, ret |-> ret, log |-> log,
     before |-> inctx, at |-> clock_gettime]

audit_log_input_violation(message) == <<Syslog("LOG_WARNING", message, 0, <<>>)>>

\* Time passes.
time_passes ==
    /\ \E d \in ClockSteps :
        /\ clock + d <= BootTime + MaxMs * MinGapNs
        /\ clock' = clock + d
    /\ UNCHANGED <<inctx, incall>>
    /\ UNCHANGED nonInputVars

\* The caller fills a context: the rights and level of the client, and the
\* time of the last input as the current time or as never.
new_input_context ==
    /\ ~inctx.made
    /\ \E level \in 1..2, kb \in BOOLEAN, pointer \in BOOLEAN, fresh \in BOOLEAN :
        inctx' = [made |-> TRUE, security_level |-> level, keyboard_allowed |-> kb,
                  mouse_allowed |-> pointer, touch_allowed |-> pointer,
                  last_input_time |-> IF fresh THEN clock_gettime ELSE Timespec(0)]
    /\ UNCHANGED <<clock, incall>>
    /\ UNCHANGED nonInputVars

\* Mutant: the time of the last input is not updated.
Mut_rate_limit_keeps_time(c, now) ==
    LET time_diff_ns == (now.tv_sec - c.last_input_time.tv_sec) * NSEC_PER_SEC
                            + (now.tv_nsec - c.last_input_time.tv_nsec)
    IN  IF time_diff_ns < MinGapNs
        THEN [ret |-> -EBUSY, ctx |-> c,
              log |-> audit_log_input_violation("Input rate limit exceeded")]
        ELSE [ret |-> 0, ctx |-> c, log |-> <<>>]

\* check_input_rate_limit on context c at time now: the value returned, the
\* context afterwards and the violations logged.
rate_limit(c, now) ==
    LET time_diff_ns == (now.tv_sec - c.last_input_time.tv_sec) * NSEC_PER_SEC
                            + (now.tv_nsec - c.last_input_time.tv_nsec)
    IN  IF time_diff_ns < MinGapNs
        THEN [ret |-> -EBUSY, ctx |-> c,
              log |-> audit_log_input_violation("Input rate limit exceeded")]
        ELSE [ret |-> 0, ctx |-> [c EXCEPT !.last_input_time = now], log |-> <<>>]

NullInput(ret) == [ret |-> ret, ctx |-> inctx, log |-> <<>>]
Denied(message) ==
    [ret |-> -EPERM, ctx |-> inctx, log |-> audit_log_input_violation(message)]

\* The switch of validate_input_event and the rate check after it.
validate_outcome(event, c, now) ==
    IF event.null \/ ~c.made THEN NullInput(-EINVAL)
    ELSE IF event.type = EV_KEY
    THEN IF ~c.keyboard_allowed THEN Denied("Keyboard input not allowed")
         ELSE rate_limit(c, now)
    ELSE IF event.type \in {EV_REL, EV_ABS}
    THEN IF event.code >= BTN_MOUSE /\ event.code < BTN_JOYSTICK
         THEN IF ~c.mouse_allowed THEN Denied("Mouse input not allowed")
              ELSE rate_limit(c, now)
         ELSE IF event.code >= ABS_X /\ event.code <= ABS_PRESSURE
         THEN IF ~c.touch_allowed THEN Denied("Touch input not allowed")
              ELSE rate_limit(c, now)
         ELSE rate_limit(c, now)
    ELSE rate_limit(c, now)

\* A null context is a context that was never made.
check_input_rate_limit ==
    /\ LET o == IF ~inctx.made THEN NullInput(-EINVAL)
                ELSE rate_limit(inctx, clock_gettime)
       IN  /\ inctx' = o.ctx
           /\ incall' = InCall("check_input_rate_limit", NullEvent, NullEvent, o.ret, o.log)
    /\ UNCHANGED clock
    /\ UNCHANGED nonInputVars

validate_input_event ==
    /\ \E event \in InputEvents \cup {NullEvent} :
        LET o == validate_outcome(event, inctx, clock_gettime)
        IN  /\ inctx' = o.ctx
            /\ incall' = InCall("validate_input_event", event, event, o.ret, o.log)
    /\ UNCHANGED clock
    /\ UNCHANGED nonInputVars

DangerousKeys == {KEY_SYSRQ, KEY_PAUSE, KEY_SCROLLLOCK}

\* Mutant: the filter is applied at every security level.
Mut_filter_every_level(event, c) ==
    IF event.null \/ ~c.made THEN NullInput(-EINVAL)
    ELSE IF event.type = EV_KEY /\ event.code \in DangerousKeys
    THEN Denied("Dangerous key blocked")
    ELSE NullInput(0)

filter_outcome(event, c) ==
    IF event.null \/ ~c.made THEN NullInput(-EINVAL)
    ELSE IF c.security_level >= 2 /\ event.type = EV_KEY /\ event.code \in DangerousKeys
    THEN Denied("Dangerous key blocked")
    ELSE NullInput(0)

apply_input_filtering ==
    /\ \E event \in InputEvents \cup {NullEvent} :
        LET o == filter_outcome(event, inctx)
        IN  /\ inctx' = o.ctx
            /\ incall' = InCall("apply_input_filtering", event, event, o.ret, o.log)
    /\ UNCHANGED clock
    /\ UNCHANGED nonInputVars

(* ------------------------------------------------------------------------ *)
(* secure_compositor.c                                                      *)
(* ------------------------------------------------------------------------ *)
\* Buffers are addresses; 0 is NULL.
Buffers == 1..2

\* The processes a client pid can name: the uid and gid of /proc/PID/status
\* and the label of /proc/PID/attr/current (<<>> when it cannot be read).
ClientProcs ==
    {[uid |-> ROOT, gid |-> ROOT, label |-> <<"u", "unconfined">>],
     [uid |-> 500, gid |-> 500, label |-> <<"system">>],
     [uid |-> FirstUserUid, gid |-> FirstUserUid, label |-> <<"user">>],
     [uid |-> FirstUserUid, gid |-> FirstUserUid, label |-> <<>>]}
NoProc == [uid |-> -1, gid |-> -1, label |-> <<>>]

NoSurface ==
    [made |-> FALSE, pending_buffer |-> 0, current_buffer |-> 0, security_level |-> 0,
     input_allowed |-> FALSE, output_allowed |-> FALSE]
NullClient == [null |-> TRUE]

NoWcCall ==
    [fn |-> "none", pid |-> 0, null |-> TRUE, ret |-> 0, log |-> <<>>,
     before |-> NoSurface, after |-> NoSurface, client |-> NullClient, locked |-> FALSE]

\* A 32-bit mask is the set of the positions of its bits that are set.
Bits(n) == {i \in 0..30 : (n \div (2 ^ i)) % 2 = 1}
PERM_ROOT == 0..31     \* 0xFFFFFFFF
PERM_SYSTEM == 0..3    \* 0x0000000F
PERM_USER == 0..7      \* 0x000000FF

audit_log_compositor_violation(message) == <<Syslog("LOG_WARNING", message, 0, <<>>)>>
audit_log_surface_commit(pid, s) == <<Syslog("LOG_INFO", "Surface commit", pid, <<s.security_level>>)>>

\* The context of the process behind client_pid, NULL when the pid is not
\* positive or /proc/PID/status gives no uid and gid.
get_client_security_context(pid, process) ==
    IF pid <= 0 \/ process = NoProc THEN NullClient
    ELSE [null |-> FALSE, pid |-> pid, uid |-> process.uid, gid |-> process.gid,
          security_label |-> process.label,
          permissions |-> IF process.uid = ROOT THEN PERM_ROOT
                          ELSE IF process.uid < FirstUserUid THEN PERM_SYSTEM
                          ELSE PERM_USER]

validate_surface_permissions(c, s, operation) ==
    IF c.null THEN [ret |-> -EINVAL, log |-> <<>>]
    ELSE IF c.permissions \cap Bits(operation) = {}
    THEN [ret |-> -EPERM, log |-> audit_log_compositor_violation("Operation not permitted")]
    ELSE IF s.security_level > SECURITY_LEVEL_PUBLIC /\ c.uid >= FirstUserUid
    THEN [ret |-> -EACCES, log |-> audit_log_compositor_violation("Security level violation")]
    ELSE [ret |-> 0, log |-> <<>>]

\* mlock of the first page of the buffer succeeds or fails.
validate_buffer_security(buffer, c, mlock_ok) ==
    IF buffer = 0 \/ c.null THEN [ret |-> -EINVAL, log |-> <<>>]
    ELSE IF ~mlock_ok
    THEN [ret |-> -EACCES, log |-> audit_log_compositor_violation("Buffer memory validation failed")]
    ELSE [ret |-> 0, log |-> <<>>]

apply_surface_mac_policy(s, c) ==
    IF c.security_label = <<>> THEN s
    ELSE IF strstr_from(c.security_label, <<"unconfined">>, 0) = -1
    THEN [s EXCEPT !.input_allowed = FALSE, !.output_allowed = (c.uid >= FirstUserUid)]
    ELSE [s EXCEPT !.input_allowed = TRUE, !.output_allowed = TRUE]

CommitOut(ret, log, s, c, locked) ==
    [ret |-> ret, log |-> log, surface |-> s, client |-> c, locked |-> locked]

\* Mutant: the pending buffer is made current before it is validated.
Mut_commit_before_validation(pid, s, process, mlock_ok) ==
    LET c == get_client_security_context(pid, process)
        perm == validate_surface_permissions(c, s, SURFACE_OP_COMMIT)
        buf == IF s.pending_buffer # 0
               THEN validate_buffer_security(s.pending_buffer, c, mlock_ok)
               ELSE [ret |-> 0, log |-> <<>>]
        moved == [s EXCEPT !.current_buffer = s.pending_buffer, !.pending_buffer = 0]
    IN  IF pid <= 0 THEN CommitOut(-EINVAL, <<>>, s, NullClient, FALSE)
        ELSE IF c.null
        THEN CommitOut(-EACCES, audit_log_compositor_violation("Missing security context"),
                       s, c, FALSE)
        ELSE IF perm.ret < 0
        THEN CommitOut(perm.ret,
                       perm.log \o audit_log_compositor_violation("Surface permission denied"),
                       s, c, FALSE)
        ELSE IF buf.ret < 0
        THEN CommitOut(buf.ret,
                       buf.log \o audit_log_compositor_violation("Buffer validation failed"),
                       moved, c, FALSE)
        ELSE LET mac == apply_surface_mac_policy(s, c)
                 done == IF mac.pending_buffer # 0
                         THEN [mac EXCEPT !.current_buffer = mac.pending_buffer,
                                          !.pending_buffer = 0]
                         ELSE mac
             IN  CommitOut(0, audit_log_surface_commit(pid, done), done, c,
                           s.pending_buffer # 0)

\* secure_handle_surface_commit on surface s (not NULL) for client_pid pid,
\* where process is what /proc shows for pid: the value returned, the log,
\* the surface afterwards, the context used and whether the buffer was locked.
commit_outcome(pid, s, process, mlock_ok) ==
    LET c == get_client_security_context(pid, process)
        perm == validate_surface_permissions(c, s, SURFACE_OP_COMMIT)
        buf == IF s.pending_buffer # 0
               THEN validate_buffer_security(s.pending_buffer, c, mlock_ok)
               ELSE [ret |-> 0, log |-> <<>>]
    IN  IF pid <= 0 THEN CommitOut(-EINVAL, <<>>, s, NullClient, FALSE)
        ELSE IF c.null
        THEN CommitOut(-EACCES, audit_log_compositor_violation("Missing security context"),
                       s, c, FALSE)
        ELSE IF perm.ret < 0
        THEN CommitOut(perm.ret,
                       perm.log \o audit_log_compositor_violation("Surface permission denied"),
                       s, c, FALSE)
        ELSE IF buf.ret < 0
        THEN CommitOut(buf.ret,
                       buf.log \o audit_log_compositor_violation("Buffer validation failed"),
                       s, c, FALSE)
        ELSE LET mac == apply_surface_mac_policy(s, c)
                 done == IF mac.pending_buffer # 0
                         THEN [mac EXCEPT !.current_buffer = mac.pending_buffer,
                                          !.pending_buffer = 0]
                         ELSE mac
             IN  CommitOut(0, audit_log_surface_commit(pid, done), done, c,
                           s.pending_buffer # 0)

\* The surface is allocated zeroed; it is made only when the eventfd and the
\* context of the client are there.
secure_surface_create ==
    /\ ~surface.made
    /\ \E pid \in 0..1, process \in ClientProcs \cup {NoProc}, eventfd_ok \in BOOLEAN :
        LET c == get_client_security_context(pid, process)
            ret == IF ~eventfd_ok THEN -EMFILE ELSE IF c.null THEN -EACCES ELSE 0
        IN  /\ surface' = IF ret = 0 THEN [NoSurface EXCEPT !.made = TRUE] ELSE surface
            /\ wccall' = [NoWcCall EXCEPT !.fn = "secure_surface_create", !.pid = pid,
                                          !.null = FALSE, !.ret = ret,
                                          !.before = surface, !.after = surface',
                                          !.client = c]
    /\ UNCHANGED nonCompositorVars

\* The compositor attaches a buffer to the surface or sets its level.
surface_changes ==
    /\ surface.made
    /\ \E buffer \in Buffers \cup {0}, level \in 0..1 :
        /\ <<buffer, level>> # <<surface.pending_buffer, surface.security_level>>
        /\ surface' = [surface EXCEPT !.pending_buffer = buffer, !.security_level = level]
    /\ UNCHANGED wccall
    /\ UNCHANGED nonCompositorVars

secure_handle_surface_commit ==
    /\ \E pid \in 0..1, null \in BOOLEAN, process \in ClientProcs \cup {NoProc},
          mlock_ok \in BOOLEAN :
        /\ null = ~surface.made
        /\ LET o == IF null THEN CommitOut(-EINVAL, <<>>, surface, NullClient, FALSE)
                    ELSE commit_outcome(pid, surface, process, mlock_ok)
           IN  /\ surface' = o.surface
               /\ wccall' = [fn |-> "secure_handle_surface_commit", pid |-> pid,
                             null |-> null, ret |-> o.ret, log |-> o.log,
                             before |-> surface, after |-> o.surface,
                             client |-> o.client, locked |-> o.locked]
    /\ UNCHANGED nonCompositorVars

Init ==
    /\ ptable = [pid \in Pids |-> Free]
    /\ ctx = [i \in InstIds |-> NoCtx]
    /\ signals = <<>>
    /\ target = "none"
    /\ rets = [c \in Callers |-> <<>>]
    /\ vmrss = [pid \in Pids |-> 0]
    /\ mon = NoMon
    /\ events = <<>>
    /\ rules = <<>>
    /\ monitor_initialized = FALSE
    /\ seccall = NoSecCall
    /\ inctx = NoInputCtx
    /\ clock = BootTime
    /\ incall = NoInCall
    /\ surface = NoSurface
    /\ wccall = NoWcCall
    /\ variant = "none"
    /\ config = NullConfig
    /\ callerUid \in Uids
    /\ enforce \in BOOLEAN
    /\ ppc = "idle"
    /\ pret = 0
    /\ nforks = 0
    /\ cpid = 0
    /\ cpc = "none"
    /\ proc = NoProcess
    /\ stages = <<>>
    /\ audit = <<>>
    /\ exitStatus = -1
    /\ exitFrom = "none"
    /\ services = <<>>

Next ==
    \/ create_secure_sandbox
    \/ sandbox_child_namespaces
    \/ sandbox_child_mounts
    \/ sandbox_child_seccomp
    \/ sandbox_child_capabilities
    \/ sandbox_child_limits
    \/ sandbox_child_user
    \/ sandbox_child_exec
    \/ create_app_sandbox
    \/ app_child_namespaces
    \/ app_child_mounts
    \/ app_child_seccomp
    \/ app_child_capabilities
    \/ app_child_limits
    \/ app_child_user
    \/ app_child_exec
    \/ create_secure_sandbox_phase3
    \/ phase3_child_namespaces
    \/ phase3_child_chroot
    \/ phase3_child_limits
    \/ phase3_child_capabilities
    \/ phase3_child_user
    \/ phase3_child_seccomp
    \/ phase3_child_exec
    \/ phase3_waitpid
    \/ target_exit
    \/ load_service_config
    \/ start_service
    \/ service_child_user
    \/ service_child_exec
    \/ create_container
    \/ container_child_security
    \/ container_child_exec

Spec == Init /\ [][Next]_vars

(* --------------------------------------------- instances after the spawn *)
\* The policies and service tables of the runs that follow instances
\* through their life: two accepted app policies that differ, and services
\* that pass validation.
LifePolicies ==
    {policy \in AppPolicies :
        /\ validate_app_policy(policy) = 0
        /\ policy.app_path = "/bin/app"
        /\ policy.allowed_capabilities = {}
        /\ policy.file_count = 0}
LifeServices ==
    {c \in ServiceConfigs : /\ c.user_ok /\ c.group_ok /\ c.security_level = 3
                            /\ c.pw_uid = USER /\ c.gr_gid = USER}

LifeInit == Init /\ enforce

\* The caller spawns up to two app instances, or loads and starts
\* services, and then stops what it started; each child is followed only as
\* a process that runs and at some time exits.
LifeNext ==
    \/ /\ \E i \in InstIds : ~ctx[i].made
       /\ create_app_sandbox
       /\ config' \in LifePolicies
    \/ /\ \A i \in InstIds : ~ctx[i].made
       /\ load_service_config
       /\ \A n \in ServiceNames : services'[n].config \in LifeServices
    \/ start_service
    \/ caller_keeps_instance
    \/ process_exits
    \/ pid_reused
    \/ other_process_ends
    \/ terminate_app_sandbox_begin
    \/ terminate_app_sandbox_end
    \/ stop_service_begin
    \/ stop_service_end
    \/ restart_service_begin
    \/ restart_service_end

LifeSpec == LifeInit /\ [][LifeNext]_vars

(* ------------------------------------------------- instances under watch *)
\* The caller spawns one app instance and polls it with monitor_app_sandbox
\* for as long as it likes; it may terminate it.  The caller's loop goes
\* on: a monitor call that can be made is made, its value is taken, and the
\* grace period of a terminate call ends.
MonitorNext ==
    \/ /\ ~ctx["i1"].made
       /\ create_app_sandbox
       /\ config' \in LifePolicies
    \/ caller_keeps_instance
    \/ process_exits
    \/ pid_reused
    \/ other_process_ends
    \/ memory_changes
    \/ monitor_app_sandbox
    \/ caller_polls_again
    \/ terminate_app_sandbox_begin
    \/ terminate_app_sandbox_end

MonitorSpec ==
    /\ LifeInit
    /\ [][MonitorNext]_vars
    /\ WF_vars(monitor_app_sandbox)
    /\ WF_vars(caller_polls_again)
    /\ WF_vars(terminate_app_sandbox_end)

(* ------------------------------------------------- the security monitor *)
\* The calls of the security monitor in any order, each any number of
\* times.
SecInit == Init /\ enforce /\ callerUid = ROOT

SecNext ==
    \/ init_security_monitor
    \/ add_security_event
    \/ load_security_rules
    \/ process_security_events
    \/ check_security_violations

SecSpec == SecInit /\ [][SecNext]_vars

(* -------------------------------------------------------- input security *)
\* One client context, events of any kind at any time.
InputNext ==
    \/ new_input_context
    \/ time_passes
    \/ check_input_rate_limit
    \/ validate_input_event
    \/ apply_input_filtering

InputSpec == SecInit /\ [][InputNext]_vars

(* ------------------------------------------------------------ compositor *)
\* One surface: created, changed by the compositor, committed by clients.
CompositorNext ==
    \/ secure_surface_create
    \/ surface_changes
    \/ secure_handle_surface_commit

CompositorSpec == SecInit /\ [][CompositorNext]_vars

(* ------------------------------------------------------------------------ *)
(* Properties                                                               *)
(* ------------------------------------------------------------------------ *)
Trace == proc.trace
Builder == variant \in {"sandbox", "app"}
CallsOf(names) == {i \in DOMAIN Trace : Trace[i].call \in names}
Returned == ppc = "returned"

\* The policy's target uid, and whether the policy is well-formed apart
\* from it.
PolicyUid == IF variant = "sandbox" THEN config.uid ELSE config.sandbox_uid
NamedPolicy ==
    /\ ~config.null
    /\ IF variant = "sandbox" THEN config.program # "" ELSE config.app_name # ""
Accepted ==
    /\ ~config.null
    /\ IF variant = "sandbox" THEN validate_sandbox_config(config, callerUid) = 0
                              ELSE validate_app_policy(config) = 0

\* C1: a spawn of a policy with uid 0 by a caller that is not root returns
\* -EPERM and forks no child.
C1_RootPolicyDenied ==
    (Builder /\ Returned /\ NamedPolicy /\ PolicyUid = ROOT /\ callerUid # ROOT)
        => (pret = -EPERM /\ nforks = 0)

\* C2: a spawn of a policy that validation accepts forks exactly one child
\* and returns its positive pid, or returns the error of a failed fork; a
\* negative return without a fork happens only on rejection or fork failure.
C2_AcceptedPolicyForks ==
    (Builder /\ Returned) =>
        /\ Accepted => \/ nforks = 1 /\ pret = cpid /\ pret > 0
                       \/ nforks = 0 /\ pret = -EAGAIN
        /\ (pret < 0 /\ nforks = 0) => (~Accepted \/ pret = -EAGAIN)

\* The builder stage a system call belongs to (7: after the last stage).
StageIndex(c) ==
    CASE c = "unshare" -> 1
      [] c = "mount" -> 2
      [] c \in {"prctl_no_new_privs", "prctl_seccomp"} -> 3
      [] c \in {"capget", "capset"} -> 4
      [] c = "setrlimit" -> 5
      [] c \in {"setgid", "setuid", "setuid0"} -> 6
      [] OTHER -> 7

\* The calls every run of the pipeline makes, whatever the policy.
KeyCalls == {"unshare", "prctl_no_new_privs", "prctl_seccomp", "capget", "capset",
             "setgid", "setuid", "setuid0"}
ExpectedKeys == <<"unshare", "prctl_no_new_privs", "prctl_seccomp", "capget", "capset",
                  "setgid", "setuid", "setuid0">>
IsKey(c) == c.call \in KeyCalls
KeyTrace == SelectSeq(Trace, IsKey)
AtExec == cpc \in {"exec", "execed"} \/ CallsOf({"execve"}) # {}

\* C3: in the process sandbox and the app sandbox the stages complete in
\* the order namespaces, mounts, seccomp, capabilities, limits, user, the
\* system calls of a stage never follow those of a later stage, and the
\* child is at exec only when all six completed, each once and successfully.
C3_ExecAfterAllStages ==
    Builder =>
        /\ Len(stages) <= Len(StageOrder)
        /\ \A i \in DOMAIN stages : stages[i] = StageOrder[i]
        /\ \A i, j \in DOMAIN Trace :
              i < j => StageIndex(Trace[i].call) <= StageIndex(Trace[j].call)
        /\ AtExec =>
              /\ stages = StageOrder
              /\ [i \in DOMAIN KeyTrace |-> KeyTrace[i].call] = ExpectedKeys
              /\ \A i \in DOMAIN KeyTrace :
                    KeyTrace[i].res = IF KeyTrace[i].call = "setuid0" THEN -1 ELSE 0
              /\ \E i, j \in CallsOf({"mount"}) :
                    /\ Trace[i].arg = -2 /\ Trace[i].res = 0
                    /\ Trace[j].arg = -1 /\ Trace[j].res = 0 /\ i < j

C3_Witness ==
    /\ variant = "app" /\ cpc = "execed"
    /\ config.file_count > 0

\* A call whose outcome makes its stage fail: a failed call other than a
\* skipped bind mount of the app sandbox, or a regain of uid 0 that worked.
FatalCall(i) ==
    \/ /\ Trace[i].res = -1
       /\ Trace[i].call \in (KeyCalls \cup {"mount", "setrlimit"}) \ {"setuid0"}
       /\ ~(variant = "app" /\ Trace[i].call = "mount" /\ Trace[i].arg >= 0)
    \/ Trace[i].call = "setuid0" /\ Trace[i].res = 0

\* C4: when a builder stage fails, the child makes no further system call
\* but its exit, exits with a non-zero status from that stage's failure
\* branch, completes no later stage and never calls exec.
C4_StageFailureExits ==
    Builder =>
        \A i \in DOMAIN Trace : FatalCall(i) =>
            /\ cpc = "exited" /\ exitStatus # 0 /\ proc.life = "exited"
            /\ i = Len(Trace) - 1 /\ Trace[Len(Trace)].call = "exit_group"
            /\ StageOrder[StageIndex(Trace[i].call)] = exitFrom
            /\ Len(stages) = StageIndex(Trace[i].call) - 1
            /\ CallsOf({"execve"}) = {}

C4_Witness ==
    /\ variant = "sandbox" /\ cpc = "exited" /\ exitFrom = "seccomp"
    /\ \E i \in CallsOf({"prctl_seccomp"}) : Trace[i].res = -1

\* C5: in the process sandbox, the app sandbox and the phase3 sandbox, every
\* PR_SET_SECCOMP call directly follows a PR_SET_NO_NEW_PRIVS call that
\* succeeded, no PR_SET_SECCOMP call follows a failed PR_SET_NO_NEW_PRIVS,
\* and a seccomp mode is never in force without no_new_privs.
C5_NoNewPrivsBeforeSeccomp ==
    variant \in {"sandbox", "app", "phase3"} =>
        /\ \A i \in CallsOf({"prctl_seccomp"}) :
              /\ i > 1
              /\ Trace[i - 1].call = "prctl_no_new_privs"
              /\ Trace[i - 1].res = 0
        /\ \A i \in CallsOf({"prctl_no_new_privs"}) :
              Trace[i].res = -1 => \A j \in CallsOf({"prctl_seccomp"}) : j < i
        /\ proc.seccomp # "off" => proc.nnp

C5_Witness ==
    /\ variant = "phase3" /\ proc.seccomp = "filter"
    /\ Cardinality(CallsOf({"prctl_no_new_privs"})) = 2

\* The capability set the policy declares.
PolicyCaps ==
    IF variant = "sandbox" THEN config.required_caps ELSE config.allowed_capabilities
Completed(stage) == \E i \in DOMAIN stages : stages[i] = stage

\* C6: when the capability stage has just completed, effective = permitted
\* = exactly the policy's set and inheritable is empty; from then on no
\* capability outside the policy's set is held.
C6_CapabilitiesExactlyPolicy ==
    Builder =>
        /\ cpc = "limits" =>
              /\ proc.capEff = PolicyCaps /\ proc.capPrm = PolicyCaps
              /\ \E i \in CallsOf({"capset"}) : Trace[i].res = 0
        /\ Completed("capabilities") =>
              /\ proc.capEff \subseteq PolicyCaps /\ proc.capPrm \subseteq PolicyCaps
              /\ proc.capInh = {}

C6_Witness ==
    /\ Builder /\ cpc = "limits"
    /\ PolicyCaps = {CAP_SETUID, 32}
    /\ proc.capEff = {CAP_SETUID, 32}

\* C7: a failed capget or capset makes the drop return a negative value,
\* which the audit records carry, and the child exits non-zero from the
\* capability stage without completing it and without exec.
C7_CapabilityFailureFatal ==
    Builder =>
        \A i \in CallsOf({"capget", "capset"}) : Trace[i].res = -1 =>
            /\ cpc = "exited" /\ exitStatus # 0 /\ exitFrom = "capabilities"
            /\ ~Completed("capabilities")
            /\ CallsOf({"execve", "setrlimit", "setgid", "setuid"}) = {}
            /\ \E k \in DOMAIN audit :
                  audit[k].what = "capability drop" /\ audit[k].code < 0
            /\ variant = "sandbox" =>
                  \E k \in DOMAIN audit :
                      /\ audit[k].fn = "audit_capability_operation"
                      /\ audit[k].code < 0

C7_Witness ==
    /\ variant = "sandbox" /\ cpc = "exited"
    /\ \E i \in CallsOf({"capset"}) : Trace[i].res = -1

\* C8: a child at exec has made the regain attempt setuid(0) right after a
\* successful setgid and setuid, the attempt failed, and the process cannot
\* become uid 0; a regain attempt that succeeded ends in a non-zero exit
\* without exec.
C8_NoRegainAtExec ==
    Builder =>
        /\ AtExec => \E i \in CallsOf({"setuid0"}) :
              /\ Trace[i].res = -1 /\ i > 2
              /\ Trace[i - 1].call = "setuid" /\ Trace[i - 1].res = 0
              /\ Trace[i - 2].call = "setgid" /\ Trace[i - 2].res = 0
        /\ cpc \in {"exec", "execed"} => ~CanRegainRoot(proc)
        /\ \A i \in CallsOf({"setuid0"}) : Trace[i].res = 0 =>
              /\ cpc = "exited" /\ exitStatus # 0
              /\ CallsOf({"execve"}) = {}

C8_Witness ==
    /\ variant = "sandbox" /\ cpc = "exited"
    /\ \E i \in CallsOf({"setuid0"}) : Trace[i].res = 0 /\ Trace[i - 1].arg = USER

\* C9: in the process sandbox, the app sandbox, the phase3 sandbox and the
\* service manager's child no setgid call follows a setuid call, nothing
\* changes the user id after a failed setgid, and every setuid call directly
\* follows a successful setgid call (in the phase3 sandbox: when its gid is
\* not 0, the value for which it requests no group change).
C9_GroupBeforeUser ==
    variant \in {"sandbox", "app", "phase3", "service"} =>
        /\ \A i \in CallsOf({"setuid"}) : \A j \in CallsOf({"setgid"}) : j < i
        /\ \A i \in CallsOf({"setgid"}) : Trace[i].res = -1 =>
              \A j \in CallsOf({"setuid", "setuid0"}) : j < i
        /\ \A j \in CallsOf({"setuid"}) :
              (variant = "phase3" => config.gid > 0) =>
                  /\ j > 1
                  /\ Trace[j - 1].call = "setgid" /\ Trace[j - 1].res = 0

C9_Witness ==
    /\ variant = "service" /\ cpc = "exited" /\ exitFrom = "user"
    /\ Trace[1].call = "setgid" /\ Trace[1].res = -1

\* The audit names of the six stages' failure branches.
FailureNames(stage, call) ==
    CASE stage = 1 -> {"namespace creation"}
      [] stage = 2 -> {IF variant = "sandbox" THEN "mount setup" ELSE "filesystem setup"}
      [] stage = 3 -> {"seccomp setup"}
      [] stage = 4 -> {"capability drop"}
      [] stage = 5 -> {"resource limits"}
      [] stage = 6 -> {IF variant = "app" /\ call = "setuid0" THEN "privilege check"
                                                               ELSE "user change"}
      [] OTHER -> {}

\* C10: a child that exited after a stage failure emitted, as its last
\* audit record, a failure record naming that stage.
C10_FailureAudited ==
    (Builder /\ cpc = "exited" /\ \E i \in DOMAIN Trace : FatalCall(i)) =>
        LET failed == Trace[Len(Trace) - 1] IN
        /\ audit # <<>>
        /\ ~audit[Len(audit)].ok
        /\ audit[Len(audit)].code # 0
        /\ audit[Len(audit)].what \in FailureNames(StageIndex(failed.call), failed.call)
        /\ audit[Len(audit)].fn = IF variant = "sandbox" THEN "audit_log_sandbox_failure"
                                                         ELSE "audit_log_app_sandbox_event"

C10_Witness ==
    /\ variant = "app" /\ cpc = "exited" /\ exitFrom = "limits"
    /\ audit[Len(audit)].what = "resource limits"
    /\ Trace[Len(Trace) - 1].call = "setrlimit" /\ Trace[Len(Trace) - 1].res = -1

\* C11: a child whose exec failed after all six stages succeeded exits with
\* a non-zero status, and a failure audit record for the exec was emitted
\* before it exited.
C11_ExecFailureAudited ==
    (Builder /\ cpc = "exited" /\ exitFrom = "exec") =>
        /\ exitStatus # 0
        /\ \E k \in DOMAIN audit : ~audit[k].ok /\ audit[k].code # 0

\* Every call the child made so far was permitted by the operating system
\* (the regain attempt setuid(0) is the one call that is meant to fail).
AllPermitted ==
    \A i \in DOMAIN Trace : Trace[i].res = -1 => Trace[i].call = "setuid0"
NoDeclaredMounts ==
    IF variant = "sandbox" THEN config.mount_count = 0 ELSE config.file_count = 0

\* C12: with an empty mount list, strict seccomp installed and every setup
\* call permitted, the child is not killed by the syscall filter: it
\* survives the stages after seccomp and reaches exec.
C12_SurvivesSeccomp ==
    (Builder /\ proc.seccomp = "strict" /\ NoDeclaredMounts /\ AllPermitted) =>
        /\ proc.life # "killed"
        /\ cpc # "killed"

\* The limits the policy of the process sandbox asks for, in the order the
\* code applies them: the five fields with the zero ones left out.
LimitFields ==
    <<[res |-> "RLIMIT_AS", val |-> config.limits.max_memory],
      [res |-> "RLIMIT_CPU", val |-> config.limits.max_cpu_time],
      [res |-> "RLIMIT_FSIZE", val |-> config.limits.max_file_size],
      [res |-> "RLIMIT_NPROC", val |-> config.limits.max_processes],
      [res |-> "RLIMIT_NOFILE", val |-> config.limits.max_open_files]>>
NonZero(f) == f.val # 0
RequestedLimits == SelectSeq(LimitFields, NonZero)
IsSetrlimit(c) == c.call = "setrlimit"
LimitCalls == SelectSeq(Trace, IsSetrlimit)

\* C13: in the process sandbox the setrlimit calls are, in order, those of
\* the non-zero policy fields and of no zero field, each with soft = hard =
\* the policy value; nothing is attempted after a failed setrlimit, which
\* makes the child exit non-zero from the limits stage without exec; and the
\* stage completes only with every requested limit in force.
C13_LimitsAsPolicy ==
    (variant = "sandbox" /\ ~config.null) =>
        /\ Len(LimitCalls) <= Len(RequestedLimits)
        /\ Len(proc.rlim) <= Len(LimitCalls)
        /\ \A i \in DOMAIN LimitCalls :
              /\ LimitCalls[i].flags = {RequestedLimits[i].res}
              /\ LimitCalls[i].arg = RequestedLimits[i].val
              /\ LimitCalls[i].res = -1 =>
                    /\ i = Len(LimitCalls)
                    /\ cpc = "exited" /\ exitStatus # 0 /\ exitFrom = "limits"
                    /\ CallsOf({"execve", "setgid", "setuid"}) = {}
        /\ \A i \in DOMAIN proc.rlim :
              /\ proc.rlim[i].res = RequestedLimits[i].res
              /\ proc.rlim[i].cur = RequestedLimits[i].val
              /\ proc.rlim[i].max = RequestedLimits[i].val
        /\ Completed("limits") => Len(proc.rlim) = Len(RequestedLimits)

C13_Witness ==
    /\ variant = "sandbox" /\ cpc = "exited" /\ exitFrom = "limits"
    /\ config.limits = Limits(64, 0, 8, 0, 4)
    /\ Len(proc.rlim) = 1 /\ Len(LimitCalls) = 2

\* C14: in the container runtime a memory cgroup file that cannot be opened
\* or written makes the child exit non-zero without exec.
C14_MemoryCeilingFatal ==
    (variant = "container" /\ \E i \in CallsOf({"fopen", "fprintf"}) : Trace[i].res = -1) =>
        /\ cpc = "exited" /\ exitStatus # 0
        /\ CallsOf({"execve"}) = {}

IsMount(c) == c.call = "mount"
MountCalls == SelectSeq(Trace, IsMount)

\* C15: in the process sandbox the mount calls are, in order, the remount
\* of / private and recursive, the tmpfs on /tmp, then the policy's mounts
\* by index, each with its own flags plus MS_RDONLY exactly when its
\* read-only flag is set; no mount is attempted after a failed one; and the
\* stage completes only with all of them done.
C15_MountOrder ==
    (variant = "sandbox" /\ ~config.null) =>
        /\ Len(MountCalls) <= 2 + config.mount_count
        /\ \A k \in DOMAIN MountCalls :
              /\ MountCalls[k].arg = k - 3
              /\ k = 1 => MountCalls[k].flags = {"MS_REC", "MS_PRIVATE"}
              /\ k > 2 =>
                    /\ MountCalls[k].flags \ {"MS_RDONLY"} = MountAt(config, k - 3).flags
                    /\ "MS_RDONLY" \in MountCalls[k].flags <=> MountAt(config, k - 3).readonly
              /\ MountCalls[k].res = -1 => k = Len(MountCalls)
        /\ Completed("mounts") =>
              /\ Len(MountCalls) = 2 + config.mount_count
              /\ \A k \in DOMAIN MountCalls : MountCalls[k].res = 0

C15_Witness ==
    /\ variant = "sandbox" /\ Completed("mounts")
    /\ Len(config.mounts) = 2
    /\ config.mounts[1].readonly /\ ~config.mounts[2].readonly
    /\ Len(MountCalls) = 4

\* C16: neither policy structure has a field that marks a mount optional,
\* so every failed policy-declared mount or allowed-file bind mount makes
\* the child exit non-zero from the mount stage, without exec; none is
\* skipped.
C16_FailedMountFatal ==
    Builder =>
        \A i \in CallsOf({"mount"}) : (Trace[i].arg >= 0 /\ Trace[i].res = -1) =>
            /\ cpc = "exited" /\ exitStatus # 0 /\ exitFrom = "mounts"
            /\ ~Completed("mounts")
            /\ CallsOf({"execve"}) = {}

\* C17: in the process sandbox and the app sandbox the first call of the
\* child is an unshare that requests new mount, pid, UTS, IPC and user
\* namespaces, and a new network namespace when the policy grants no
\* network access (the process sandbox requests it always); a failed
\* unshare makes the child exit non-zero without exec.
C17_NamespacesRequested ==
    (Builder /\ Trace # <<>>) =>
        /\ Trace[1].call = "unshare"
        /\ {"NEWNS", "NEWPID", "NEWUTS", "NEWIPC", "NEWUSER"} \subseteq Trace[1].flags
        /\ (variant = "sandbox" \/ ~config.network_access) => "NEWNET" \in Trace[1].flags
        /\ Trace[1].res = -1 =>
              /\ cpc = "exited" /\ exitStatus # 0 /\ exitFrom = "namespaces"
              /\ CallsOf({"execve"}) = {}

(* ------------------------------------------- properties of LifeSpec *)
Last(q) == q[Len(q)]
OwnedPids(c) == {pid \in Pids : ptable[pid].owner = c}
SameCall(a, b) == a.by = b.by /\ a.n = b.n

\* C18: in terminate_app_sandbox and stop_service the first signal of a call
\* is SIGTERM; SIGKILL is sent only right after a delivered SIGTERM of the
\* same call, to the same pid, and only when the child under that pid still
\* ran at the non-blocking wait after the grace period; and once a call has
\* returned 0 the instance has no process left, running or un-reaped, and is
\* marked terminated (status 0; for a service the state stopped or failed).
C18_TerminateProtocol ==
    /\ \A k \in DOMAIN signals :
          /\ (k = 1 \/ ~SameCall(signals[k - 1], signals[k])) => signals[k].sig = SIGTERM
          /\ signals[k].sig = SIGKILL =>
                /\ k > 1
                /\ SameCall(signals[k - 1], signals[k])
                /\ signals[k - 1].sig = SIGTERM /\ signals[k - 1].res = 0
                /\ signals[k - 1].pid = signals[k].pid
                /\ signals[k].was = "running"
    /\ \A i \in InstIds :
          (rets[i] # <<>> /\ Last(rets[i]) = 0) =>
              /\ OwnedPids(i) = {}
              /\ ctx[i].status = 0
    /\ \A n \in ServiceNames :
          (n \in DOMAIN services /\ rets[n] # <<>> /\ Last(rets[n]) = 0
             /\ target # n /\ services[n].state # SERVICE_RUNNING) =>
              /\ OwnedPids(n) = {}
              /\ services[n].state \in {SERVICE_STOPPED, SERVICE_FAILED}

C18_Witness ==
    /\ rets["i1"] = <<0>> /\ ctx["i1"].status = 0
    /\ \E k \in DOMAIN signals :
          /\ signals[k].sig = SIGKILL /\ signals[k].by = "i1" /\ signals[k].hit = "i1"

\* The process of instance i had exited when its first terminate call began.
ExitedBeforeFirst(i) ==
    \E k \in DOMAIN signals :
        /\ signals[k].by = i /\ signals[k].n = 1 /\ signals[k].sig = SIGTERM
        /\ signals[k].hit = i /\ signals[k].was = "zombie"

\* C19: two terminate calls on an instance whose process had already exited
\* return the same value, which is no error, and the second call delivers
\* no signal to any process.
C19_TerminateIdempotent ==
    \A i \in InstIds :
        (Len(rets[i]) >= 2 /\ ExitedBeforeFirst(i)) =>
            /\ rets[i][2] = rets[i][1]
            /\ rets[i][2] >= 0
            /\ ~\E k \in DOMAIN signals :
                  signals[k].by = i /\ signals[k].n = 2 /\ signals[k].res = 0

\* C20: two instances whose processes both exist have distinct pids, and a
\* signal sent by a terminate call on one instance never reaches the process
\* of the other instance.
C20_TerminateIsolated ==
    /\ \A i, j \in InstIds :
          (i # j /\ OwnedPids(i) # {} /\ OwnedPids(j) # {}) =>
              ctx[i].sandbox_pid # ctx[j].sandbox_pid
    /\ \A k \in DOMAIN signals :
          (signals[k].by \in InstIds /\ signals[k].res = 0) =>
              signals[k].hit \notin InstIds \ {signals[k].by}

(* ------------------------------------------------------- monitor outcomes *)
\* The last monitor call was made on instance i.
Polled(i) == mon.fn = "monitor_app_sandbox" /\ mon.inst = i

\* At that call the instance's own process was running, and its resident
\* memory was above the limit of the policy.
MonLive == mon.st = "running" /\ mon.owner = mon.inst
MonOver == mon.rss * KB > ctx[mon.inst].memory_limit

\* C21: monitor returns the violation outcome -ENOMEM only for an instance
\* whose process exists with VmRSS * 1024 strictly above memory_limit, and
\* returns it for every such process whose status file it could open; for
\* a live process within the limit whose status file it could open it
\* returns "still running".  No other outcome (terminated, still running,
\* introspection error) has the value -ENOMEM.
C21_ViolationOutcome ==
    \A i \in InstIds : Polled(i) =>
        /\ mon.ret = -ENOMEM => MonLive /\ MonOver /\ mon.fopen = 0
        /\ MonLive /\ MonOver /\ mon.fopen = 0 => mon.ret = -ENOMEM
        /\ MonLive /\ ~MonOver /\ mon.fopen = 0 => mon.ret = 1

\* The process of instance i runs with resident memory above the limit of
\* its policy.
InstOver(i) ==
    /\ ctx[i].made
    /\ ptable[ctx[i].sandbox_pid] = Running(i)
    /\ vmrss[ctx[i].sandbox_pid] * KB > ctx[i].memory_limit

\* Instance i has ended: its context says so, or its process runs no more.
InstEnded(i) ==
    /\ ctx[i].made
    /\ \/ ctx[i].status = 0
       \/ ptable[ctx[i].sandbox_pid] # Running(i)

BuilderStages == {StageOrder[k] : k \in DOMAIN StageOrder}

\* C23: a builder stage that fails makes the child exit with a non-zero
\* code that no other stage's failure branch uses.
C23_DistinctExitCodes ==
    Builder /\ exitFrom \in BuilderStages =>
        /\ exitStatus > 0
        /\ \A stage \in BuilderStages \ {exitFrom} : exitStatus # stage_exit_code(stage)

(* ---------------------------------------------------------- static maxima *)
\* A count of the policy exceeds the size of its array.
OverCount ==
    \/ variant = "sandbox" /\ ~config.null /\ config.mount_count > MAX_MOUNTS
    \/ variant = "app" /\ ~config.null
         /\ \/ config.file_count > MAX_ALLOWED_FILES
            \/ config.syscall_count > MAX_ALLOWED_SYSCALLS

\* C24: a policy whose mount count, allowed-file count or syscall count
\* exceeds its static maximum is rejected by validation and no process is
\* created for it, so no mount loop runs past the array.
C24_CountsValidated ==
    Returned /\ OverCount =>
        /\ nforks = 0
        /\ pret < 0
        /\ variant = "sandbox" => validate_sandbox_config(config, callerUid) < 0
        /\ variant = "app" => validate_app_policy(config) < 0

(* ------------------------------------------------------ container policy *)
WellOrdered(policy) ==
    /\ policy.allowed_uid_min <= policy.allowed_uid_max
    /\ policy.allowed_gid_min <= policy.allowed_gid_max

\* C25: create_container returns -EINVAL without forking for every
\* container policy with an empty name or with a uid or gid range whose
\* minimum is above its maximum; a container child exists only for a named
\* policy with well-ordered ranges.
C25_ContainerPolicyRejected ==
    (variant = "container" /\ Returned /\ ~config.null) =>
        /\ (config.name = "" \/ ~WellOrdered(config)) =>
              /\ pret = -EINVAL
              /\ nforks = 0 /\ cpid = 0
        /\ (nforks > 0 \/ cpid # 0) => config.name # "" /\ WellOrdered(config)

C25_Witness ==
    /\ variant = "container" /\ Returned /\ ~config.null
    /\ config.name = "c1" /\ config.image_path = "/img"
    /\ config.allowed_uid_min <= config.allowed_uid_max
    /\ config.allowed_gid_min > config.allowed_gid_max
    /\ config.memory_limit > 0 /\ config.cpu_limit > 0
    /\ pret = -EINVAL /\ nforks = 0

(* ------------------------------------------------------------ zero limits *)
ZeroLimit == config.memory_limit = 0 \/ config.cpu_limit = 0
NoLimits == Limits(0, 0, 0, 0, 0)

CapAudits ==
    {k \in DOMAIN audit : audit[k].what \in {"drop_capabilities", "capability drop"}}

\* C27: a builder child whose capability reduction succeeded has an audit
\* record of the success, and one whose reduction failed has audit records
\* of the failure, each carrying the error code of the system call that
\* failed.
C27_CapabilityCallAudited ==
    Builder =>
        /\ Completed("capabilities") => \E k \in CapAudits : audit[k].ok
        /\ (cpc = "exited" /\ exitFrom = "capabilities") =>
              /\ CapAudits # {}
              /\ \A k \in CapAudits : ~audit[k].ok /\ audit[k].code = -proc.errno

(* ----------------------------------------------------------- stage audit *)
\* The audit records of a success other than the one record that reports
\* the sandbox as created.
StageSuccessAudits ==
    {k \in DOMAIN audit : audit[k].ok /\ audit[k].what \notin {"created", "creation"}}

\* C28: every builder stage that completed has been followed by an audit
\* event of its own: there are at least as many success records of stages
\* as completed stages.
C28_StageSuccessAudited ==
    Builder => Cardinality(StageSuccessAudits) >= Len(stages)

(* ------------------------------------------------------ security monitor *)
\* pattern occurs in text as a substring.
OccursIn(pattern, text) ==
    \E pre \in 0..Len(text) :
        /\ pre + Len(pattern) <= Len(text)
        /\ SubSeq(text, pre + 1, pre + Len(pattern)) = pattern

\* The (event, rule) pairs in which the rule is enabled, is for the event's
\* type and has a pattern that occurs in the event's detail text.
MatchingPairs ==
    {pr \in (DOMAIN events) \X (DOMAIN rules) :
        /\ rules[pr[2]].enabled # 0
        /\ rules[pr[2]].event_type = events[pr[1]].type
        /\ OccursIn(rules[pr[2]].pattern, events[pr[1]].details)}

Processed == seccall.fn = "process_security_events" /\ seccall.ret >= 0

\* C29: process_security_events returns the number of matching pairs; it
\* visits them event by event in arrival order and, within an event, rule
\* by rule, going on after a match; and every action it takes is that of an
\* enabled rule.
C29_EveryRuleEveryEvent ==
    Processed =>
        /\ seccall.ret = Cardinality(MatchingPairs)
        /\ {seccall.pairs[k] : k \in DOMAIN seccall.pairs} = MatchingPairs
        /\ \A a, b \in DOMAIN seccall.pairs :
              a < b => \/ seccall.pairs[a][1] < seccall.pairs[b][1]
                       \/ /\ seccall.pairs[a][1] = seccall.pairs[b][1]
                          /\ seccall.pairs[a][2] < seccall.pairs[b][2]
        /\ \A k \in DOMAIN seccall.log :
              \E j \in DOMAIN rules :
                  rules[j].rule_id = seccall.log[k].id /\ rules[j].enabled # 0

\* Two events that two enabled rules match each, with a disabled rule that
\* would match as well.
C29_Witness ==
    /\ Processed
    /\ Len(events) = 2 /\ Len(rules) = 3
    /\ seccall.ret = 4
    /\ \E j \in DOMAIN rules :
          /\ rules[j].enabled = 0
          /\ \E i \in DOMAIN events :
                /\ rules[j].event_type = events[i].type
                /\ OccursIn(rules[j].pattern, events[i].details)

\* C30: a step of the security monitor keeps every stored event at its
\* index with its content, and the event count does not go down.
C30_EventsAppendOnly ==
    [][/\ Len(events') >= Len(events)
       /\ \A k \in DOMAIN events : events'[k] = events[k]]_vars

\* init_security_monitor has been called again on a monitor that holds
\* events, and they are still there.
C30_Witness ==
    /\ seccall.fn = "init_security_monitor"
    /\ seccall.log = <<>>
    /\ Len(events) = MAX_EVENTS

(* ------------------------------------------------------------------ C31 *)
Ns(t) == t.tv_sec * NSEC_PER_SEC + t.tv_nsec
RateCalls == {"check_input_rate_limit", "validate_input_event"}
InputAccepted == incall.fn \in RateCalls /\ incall.ret = 0
InputRejected == incall.fn \in RateCalls /\ incall.ret \in {-EBUSY, -EPERM}

FilterCalled == incall.fn = "apply_input_filtering" /\ ~incall.event.null /\ incall.before.made
DangerousKey ==
    /\ incall.before.security_level >= 2
    /\ incall.event.type = EV_KEY
    /\ incall.event.code \in {KEY_SYSRQ, KEY_PAUSE, KEY_SCROLLLOCK}

\* C32: apply_input_filtering returns -EPERM exactly for a key event with code
\* KEY_SYSRQ, KEY_PAUSE or KEY_SCROLLLOCK at security level 2 or above, returns
\* 0 for every other event and context, and changes neither of them.
C32_FilterExact ==
    FilterCalled =>
        /\ incall.ret = (IF DangerousKey THEN -EPERM ELSE 0)
        /\ inctx = incall.before
        /\ incall.event_out = incall.event

C32_Witness ==
    /\ FilterCalled
    /\ incall.ret = -EPERM
    /\ incall.event.code = KEY_PAUSE

(* ------------------------------------------------------------------ C33 *)
Committed == wccall.fn = "secure_handle_surface_commit"
BuffersOf(s) == <<s.current_buffer, s.pending_buffer>>
ChecksPassed ==
    /\ ~wccall.client.null
    /\ wccall.client.permissions \cap Bits(SURFACE_OP_COMMIT) # {}
    /\ ~(wccall.before.security_level > SECURITY_LEVEL_PUBLIC
            /\ wccall.client.uid >= FirstUserUid)
    /\ wccall.locked

\* C33: secure_handle_surface_commit makes the pending buffer current and
\* clears the pending buffer only when the client context is there, the
\* commit is permitted, the security level fits and the buffer is validated,
\* and it then returns 0; on every error return both buffers are unchanged.
C33_CommitOnlyWhenChecked ==
    Committed =>
        /\ wccall.ret # 0 => BuffersOf(wccall.after) = BuffersOf(wccall.before)
        /\ BuffersOf(wccall.after) # BuffersOf(wccall.before) =>
            /\ wccall.ret = 0
            /\ ChecksPassed
            /\ BuffersOf(wccall.after) = <<wccall.before.pending_buffer, 0>>

\* A commit refused at the buffer validation, of a surface that already
\* shows another buffer.
C33_Witness ==
    /\ Committed
    /\ wccall.ret = -EACCES
    /\ ~wccall.client.null
    /\ wccall.before.security_level = SECURITY_LEVEL_PUBLIC
    /\ wccall.before.pending_buffer # 0
    /\ wccall.before.current_buffer \notin {0, wccall.before.pending_buffer}

(* ------------------------------------------------------------------ C34 *)
SeccompInstalledBefore(i) ==
    \E j \in CallsOf({"prctl_seccomp"}) : j < i /\ Trace[j].res = 0
IdsChanged ==
    /\ \E i \in CallsOf({"setgid"}) : Trace[i].arg = config.gid /\ Trace[i].res = 0
    /\ \E i \in CallsOf({"setuid"}) : Trace[i].arg = config.uid /\ Trace[i].res = 0

\* C34: the child of the phase3 sandbox installs its seccomp filter before it
\* drops capabilities, sets resource limits and changes group and user, and
\* it calls exec only after setgid and setuid to the configured ids, for
\* every configuration, uid or gid 0 included.
C34_Phase3StageOrder ==
    variant = "phase3" =>
        /\ \A i \in CallsOf({"prctl_capbset_drop", "setrlimit", "setgid", "setuid"}) :
              SeccompInstalledBefore(i)
        /\ CallsOf({"execve"}) # {} => IdsChanged

(* ------------------------------------------------------------------ C35 *)
\* C35: the phase3 create_secure_sandbox returns 0 only for a child that
\* exited normally with status 0; for a child killed by a signal it
\* returns a failure.
C35_Phase3SuccessMeansExit0 ==
    variant = "phase3" /\ Returned /\ nforks > 0 /\ pret = 0 =>
        proc.life = "exited" /\ exitStatus = 0

(* ------------------------------------------------------------------ C36 *)
\* At that call the instance's own process had exited and was not reaped.
MonExited == mon.st = "zombie" /\ mon.owner = mon.inst

\* C36: a monitor_app_sandbox call made after the child of the instance has
\* exited returns 0 and sets status 0, also while the child is a zombie (the
\* calls that could not open the status file aside).
C36_ExitedReportedTerminated ==
    \A i \in InstIds : Polled(i) /\ MonExited /\ mon.fopen = 0 =>
        mon.ret = 0 /\ mon.status = 0

(* ------------------------------------------------------------------ C37 *)
RootTarget == variant = "sandbox" /\ ~config.null /\ config.uid = ROOT
RegainedRoot == \E i \in CallsOf({"setuid0"}) : Trace[i].res = 0

ServiceCallsReturned == variant = "service" /\ ppc \notin {"sleep", "restart"}

\* C38: whenever the start_service, stop_service and restart_service calls
\* made so far have returned, every service is in state SERVICE_RUNNING
\* exactly when its pid is not 0, and none is in SERVICE_STARTING or
\* SERVICE_STOPPING.
C38_RunningIffPid ==
    ServiceCallsReturned =>
        \A n \in DOMAIN services :
            /\ services[n].state = SERVICE_RUNNING <=> services[n].pid # 0
            /\ services[n].state \notin {SERVICE_STARTING, SERVICE_STOPPING}

(* ------------------------------------------------------------------ C39 *)
\* The children started for service n that are alive: those the table of
\* processes shows running, and the one just forked.
LiveChildren(n) ==
    {pid \in Pids : ptable[pid] = Running(n)}
        \cup (IF cpid # 0 /\ services[n].pid = cpid /\ proc.life = "run"
              THEN {cpid} ELSE {})

\* C39: a service never has two live child processes at once, whatever the
\* start, stop and restart calls made and whatever kill returned.
C39_OneLiveChild ==
    variant = "service" => \A n \in DOMAIN services : Cardinality(LiveChildren(n)) <= 1

(* ------------------------------------------------------------------ C40 *)
WithinBounds ==
    /\ Len(events) \in 0..MAX_EVENTS
    /\ Len(rules) \in 0..MAX_RULES

\* A step that is a call of add_security_event, and what it must do.
AddStep ==
    seccall'.fn = "add_security_event" =>
        /\ seccall'.ret \in {0, -EINVAL}
        /\ (~monitor_initialized \/ Len(events) >= MAX_EVENTS) => seccall'.ret = -EINVAL
        /\ seccall'.ret = -EINVAL => events' = events
        /\ seccall'.ret = 0 => Len(events') = Len(events) + 1

\* A step that is a call of init_security_monitor on an initialized monitor.
InitAgainStep ==
    (seccall'.fn = "init_security_monitor" /\ monitor_initialized) =>
        events' = events /\ rules' = rules

\* C40: the event count stays within 0..MAX_EVENTS and the rule count within
\* 0..MAX_RULES; add_security_event on a full buffer, with a null event or
\* before init_security_monitor returns -EINVAL and leaves the events as they
\* are; init_security_monitor called again clears neither events nor rules.
C40_MonitorBounds ==
    /\ []WithinBounds
    /\ [][AddStep /\ InitAgainStep]_vars

\* An event refused by a full buffer, with the rule table full as well.
C40_Witness ==
    /\ seccall.fn = "add_security_event" /\ seccall.ret = -EINVAL
    /\ Len(events) = MAX_EVENTS
    /\ Len(rules) = MAX_RULES
====
